---- MODULE Spec2Model ----
(***************************************************************************)
(* Meeting ingestion pipeline: the JSON-backed record store, the three     *)
(* discovery passes that feed it, and the per-record stage machine         *)
(* download -> transcribe -> analyze of MeetingPipeline.run.               *)
(*                                                                         *)
(* Strings that the code builds by formatting are modelled as tuples of    *)
(* their parts: a path "<dir>/<id><suffix>" is <<dir, id, suffix>> and the *)
(* empty string is <<>>.  A record id is [prefix, native]: the YouTube     *)
(* adapter uses the bare native id (prefix ""), the Granicus adapter       *)
(* "granicus_<clip>", the Legistar adapter "legistar_<client>_<event>".    *)
(* Scores are in tenths (5 stands for 0.5).                                *)
(***************************************************************************)
EXTENDS Integers, Sequences, FiniteSets, TLC

\* ------------------------------------------------------------------ bounds
MaxFound == 2

MaxItems == 1

MaxParts == 3

MaxLines == 2

MaxEvents == 3

MaxPage == 2

MaxOther == 2

MaxClips == 2

MaxListing == 2

\* ------------------------------------------------------- configuration
COLORADO_CITIES == {"Denver", "Aurora"}

\* the videos listed on each city's channel, by native id
Channel(city) == IF city = "Denver" THEN {1} ELSE IF city = "Aurora" THEN {2} ELSE {}

\* the clips each city's portal site lists: clip ids are per site
GranicusClips(city) == IF city \in COLORADO_CITIES THEN {7} ELSE {}

\* the events of each city's Legistar client, "" when none is configured
LegistarClient(city) == IF city = "Denver" THEN "legistar_denver" ELSE ""

LegistarEvents(city) == IF LegistarClient(city) # "" THEN {3} ELSE {}

Titles == {"t1", "t2"}

AudioFormat == ".mp3"

AltFormat == ".m4a"

YoutubeIds == {[prefix |-> "", native |-> n] : n \in UNION {Channel(c) : c \in COLORADO_CITIES}}

GranicusIds ==
    {[prefix |-> "granicus", native |-> n] :
        n \in UNION {GranicusClips(c) : c \in COLORADO_CITIES}}

LegistarIds ==
    UNION {{[prefix |-> LegistarClient(c), native |-> n] : n \in LegistarEvents(c)} :
              c \in COLORADO_CITIES}

AllIds == YoutubeIds \cup GranicusIds \cup LegistarIds

\* ------------------------------------------------------------ data model
NoPath == <<>>

\* date, video_url and duration_minutes are set at discovery and neither read
\* nor written by the store or the stages: title stands for them
Meeting(id, jurisdiction, title, source, score) ==
    [id |-> id, jurisdiction |-> jurisdiction, title |-> title,
     source |-> source,
     audio_path |-> NoPath, transcript_path |-> NoPath,
     analysis_path |-> NoPath, summary_path |-> NoPath,
     housing_mentions |-> 0, housing_relevance_score |-> score,
     processed |-> FALSE, error |-> ""]

MeetingFields ==
    {"id", "jurisdiction", "title", "source", "audio_path",
     "transcript_path", "analysis_path", "summary_path", "housing_mentions",
     "housing_relevance_score", "processed", "error"}

to_dict(m) == [f \in DOMAIN m |-> m[f]]

from_dictDropsPaths(data) ==
    [f \in (DOMAIN data) \cap MeetingFields |->
        IF f \in {"audio_path", "transcript_path"} THEN NoPath ELSE data[f]]

from_dict(data) == [f \in (DOMAIN data) \cap MeetingFields |-> data[f]]

\* ---------------------------------------------------------- record store
Has(ms, id) == \E i \in DOMAIN ms : ms[i].id = id

Get(ms, id) == ms[CHOOSE i \in DOMAIN ms : ms[i].id = id]

UpsertAppendAlways(ms, m) == Append(ms, m)

UpsertReplacesStore(ms, m) == <<m>>

Upsert(ms, m) ==
    IF Has(ms, m.id)
    THEN [i \in DOMAIN ms |-> IF ms[i].id = m.id THEN m ELSE ms[i]]
    ELSE Append(ms, m)

Save(ms) == [i \in DOMAIN ms |-> [key |-> ms[i].id, value |-> to_dict(ms[i])]]

Load(f) == [i \in DOMAIN f |-> from_dict(f[i].value)]

DbUpsertNoSave(db, m) == [meetings |-> Upsert(db.meetings, m), file |-> db.file]

DbUpsertSavesRecord(db, m) ==
    [meetings |-> Upsert(db.meetings, m), file |-> Save(<<m>>)]

DbUpsertRereads(db, m) ==
    [meetings |-> Upsert(db.meetings, m), file |-> Save(Upsert(Load(db.file), m))]

\* upsert on a store instance: the dict assignment, then save()
DbUpsert(db, m) ==
    LET ms == Upsert(db.meetings, m)
    IN  [meetings |-> ms, file |-> Save(ms)]

\* the object handed out by list_unprocessed is the one held in the dict:
\* an attribute assignment changes the in-memory store and nothing else
MutateCopy(ms, m) == ms

Mutate(ms, m) == [i \in DOMAIN ms |-> IF ms[i].id = m.id THEN m ELSE ms[i]]

list_unprocessedSkipsErrors(ms) ==
    SelectSeq(ms, LAMBDA m : ~m.processed /\ m.error = "")

list_unprocessedAll(ms) == ms

list_unprocessed(ms) == SelectSeq(ms, LAMBDA m : ~m.processed)

RECURSIVE StoreAlways(_, _)
StoreAlways(db, found) ==
    IF found = <<>> THEN db
    ELSE StoreAlways(DbUpsert(db, Head(found)), Tail(found))

\* the "if not db.get(m.id): db.upsert(m)" loop of every discovery pass
RECURSIVE StoreNew(_, _)
StoreNew(db, found) ==
    IF found = <<>> THEN db
    ELSE StoreNew(IF ~Has(db.meetings, Head(found).id)
                  THEN DbUpsert(db, Head(found)) ELSE db,
                  Tail(found))

\* ------------------------------------------------------------- stages
\* Artifacts on disk.  audio[id] is the set of extensions present under
\* AUDIO_DIR for the id; transcripts[id] and analyses[id] hold the kind of
\* content of the file, "none" when there is no file.
AudioPath(id, ext) == <<"audio", id, ext>>

TranscriptPath(id) == <<"transcripts", id, "_transcript.json">>

AnalysisPath(id) == <<"analysis", id, "_analysis.json">>

SummaryPath(id) == <<"analysis", id, "_summary.md">>

NoContent == [kind |-> "none", score |-> 0]

EmptyDict == [kind |-> "empty", score |-> 0]

Truthy(c) == c.kind \in {"dict", "marker", "nondict"}

AnalysisScores == {5, 15}

DownloadOutcomes == {"failed", "saved", "altext", "nofile", "raise"}

download_audio(m, afiles, outcome) ==
    LET out == AudioPath(m.id, AudioFormat)
        base == [ret |-> NoPath, audio |-> afiles, external |-> TRUE,
                 raised |-> FALSE]
        written == IF outcome = "saved" THEN afiles \cup {AudioFormat}
                   ELSE IF outcome = "altext" THEN afiles \cup {AltFormat}
                   ELSE afiles
    IN  IF AudioFormat \in afiles
        THEN [base EXCEPT !.ret = out, !.external = FALSE]
        ELSE IF outcome = "raise" THEN [base EXCEPT !.raised = TRUE]
        ELSE IF outcome = "failed" THEN base
        ELSE IF AudioFormat \in written
             THEN [base EXCEPT !.ret = out, !.audio = written]
        ELSE IF written # {}
             THEN [base EXCEPT
                     !.ret = AudioPath(m.id, CHOOSE e \in written : TRUE),
                     !.audio = written]
        ELSE base

TranscribeOutcomes == {"error", "text", "empty", "odd", "badjson"}

transcribe(m, api_key, tkind, outcome) ==
    LET base == [ret |-> NoPath, transcript |-> tkind, external |-> FALSE,
                 raised |-> FALSE]
    IN  IF ~api_key THEN base
        ELSE IF tkind # "none" THEN [base EXCEPT !.ret = TranscriptPath(m.id)]
        ELSE IF outcome = "error" THEN [base EXCEPT !.external = TRUE]
        ELSE IF outcome = "badjson"
             THEN [base EXCEPT !.external = TRUE, !.raised = TRUE]
        ELSE [base EXCEPT !.ret = TranscriptPath(m.id), !.transcript = outcome,
                          !.external = TRUE]

\* format_transcript on a file of the given kind: the text, "" when all
\* three shapes are empty, or an exception for a document that is valid
\* JSON of another shape (a list, an empty "channels" list)
format_transcript(tkind) ==
    [text |-> IF tkind = "text" THEN "speech" ELSE "",
     raised |-> tkind = "odd"]

count_housing_mentions(text) == IF text = "speech" THEN 2 ELSE 0

AnalyzeOutcomes ==
    {[kind |-> "error", score |-> 0], [kind |-> "badjson", score |-> 0],
     [kind |-> "unparseable", score |-> 0], [kind |-> "nondict", score |-> 0]}
    \cup {[kind |-> "dict", score |-> s] : s \in AnalysisScores}

_extract_json(outcome) ==
    IF outcome.kind \in {"dict", "nondict"} THEN outcome ELSE EmptyDict

analyzeIgnoresCache(m, api_key, acontent, hasSummary, outcome) ==
    LET extracted == _extract_json(outcome)
        analysis == IF Truthy(extracted) THEN extracted
                    ELSE [kind |-> "marker", score |-> 0]
    IN  [ret |-> IF api_key /\ outcome.kind \in {"unparseable", "dict"}
                 THEN analysis ELSE EmptyDict,
         analysis |-> IF api_key /\ outcome.kind \notin {"error", "badjson"}
                      THEN analysis ELSE acontent,
         summary |-> hasSummary \/ (api_key /\ outcome.kind \in {"unparseable", "dict"}),
         external |-> api_key,
         raised |-> api_key /\ outcome.kind \in {"badjson", "nondict"}]

analyze(m, api_key, acontent, hasSummary, outcome) ==
    LET base == [ret |-> EmptyDict, analysis |-> acontent,
                 summary |-> hasSummary, external |-> FALSE,
                 raised |-> FALSE]
        extracted == _extract_json(outcome)
        analysis == IF Truthy(extracted) THEN extracted
                    ELSE [kind |-> "marker", score |-> 0]
    IN  IF ~api_key THEN base
        ELSE IF acontent.kind \notin {"none", "invalid"}
             THEN [base EXCEPT !.ret = acontent]
        ELSE IF outcome.kind = "error" THEN [base EXCEPT !.external = TRUE]
        ELSE IF outcome.kind = "badjson"
             THEN [base EXCEPT !.external = TRUE, !.raised = TRUE]
        ELSE IF analysis.kind = "nondict"
             THEN [base EXCEPT !.analysis = analysis, !.external = TRUE,
                               !.raised = TRUE]
        ELSE [base EXCEPT !.ret = analysis, !.analysis = analysis,
                          !.summary = TRUE, !.external = TRUE]

\* -------------------------------------------------------------- state
VARIABLES
    file,         \* the store file: the JSON object as a list of key/value
    fileState,    \* what the store file holds: see FileStates
    meetings,     \* MeetingDatabase.meetings of the running pipeline
    audio,        \* per id, the extensions present under AUDIO_DIR
    transcripts,  \* per id, the kind of the transcript file
    analyses,     \* per id, the content of the analysis file
    summaries,    \* per id, whether the summary file exists
    keys,         \* [deepgram, anthropic]: whether the API key is set
    pc,           \* position of the running pipeline, "idle" when none
    cities,       \* the cities of the current run
    unprocessed,  \* the ids of the list the run iterates over
    idx,          \* enumerate() index into unprocessed
    runlog,       \* per id, the stage events of the current run
    lastCall,     \* the latest discovery pass or stage call, and its result
    input,        \* the argument of the helper function under check
    output,       \* what the helper function returned for it
    sleeps,       \* the pauses between records the current run has made
    page_skip,    \* _api_get_paginated: skip, the offset of the next page
    all_results,  \* _api_get_paginated: the items accumulated
    evt,          \* discover_meetings: index of the event whose items are next
    wire          \* the requests and delays of the Legistar adapter, in order

vars == <<file, fileState, meetings, audio, transcripts, analyses, summaries,
          keys, pc, cities, unprocessed, idx, runlog, lastCall, input, output,
          sleeps, page_skip, all_results, evt, wire>>

helper == <<input, output>>

adapter == <<page_skip, all_results, evt, wire>>

disk == <<audio, transcripts, analyses, summaries>>

NoCall == [stage |-> "none", id |-> [prefix |-> "", native |-> 0],
           existed |-> FALSE, differs |-> FALSE, external |-> FALSE,
           raised |-> FALSE, path |-> NoPath, data |-> EmptyDict,
           stored |-> NoContent]

Event(stage, res, external) ==
    [stage |-> stage, res |-> res, external |-> external]

\* "absent": no file; "document": the complete output of save();
\* "empty", "partial": what a write_text that was cut short leaves (nothing,
\* or a proper prefix of the document); "garbage": other text that is not
\* JSON; "undecodable": bytes that are not text in the locale's encoding;
\* "foreign": valid JSON that is not an object of records
FileStates ==
    {"absent", "document", "empty", "partial", "garbage", "undecodable",
     "foreign"}

\* the state of the file after a pass that wrote it only if it stored a record
AfterStoring(f) == IF f = file THEN fileState ELSE "document"

Init ==
    /\ file = <<>>
    /\ fileState = "absent"
    /\ input = <<>>
    /\ output = <<>>
    /\ sleeps = 0
    /\ page_skip = 0
    /\ all_results = <<>>
    /\ evt = 0
    /\ wire = <<>>
    /\ meetings = <<>>
    /\ audio = [id \in AllIds |-> {}]
    /\ transcripts = [id \in AllIds |-> "none"]
    /\ analyses = [id \in AllIds |-> NoContent]
    /\ summaries = [id \in AllIds |-> FALSE]
    /\ keys = [deepgram |-> TRUE, anthropic |-> TRUE]
    /\ pc = "idle"
    /\ cities = {}
    /\ unprocessed = <<>>
    /\ idx = 0
    /\ runlog = [id \in AllIds |-> <<>>]
    /\ lastCall = NoCall

\* sequences of at most n elements of S
SeqUpTo(S, n) == UNION {[1..k -> S] : k \in 0..n}

\* ------------------------------------------------------ discovery passes
\* A listing names a meeting by the title it has upstream: "t1" when it is
\* first published, possibly "t2" once it has been seen before.
Republished(ms, found) ==
    \A i \in DOMAIN found :
        found[i].title = "t2" =>
            \/ Has(ms, found[i].id)
            \/ \E j \in 1..(i-1) : found[j].id = found[i].id

\* what discover_from_youtube returns over the cities of a run
YoutubeFound(cs) ==
    SeqUpTo(UNION {{Meeting([prefix |-> "", native |-> n], c, t, "youtube", 0) :
                        n \in Channel(c), t \in Titles} : c \in cs},
            MaxFound)

\* what GranicusDiscovery.discover_meetings returns over the cities
GranicusFound(cs) ==
    SeqUpTo(UNION {{Meeting([prefix |-> "granicus", native |-> n], c, t,
                            "granicus", 0) :
                        n \in GranicusClips(c), t \in Titles} : c \in cs},
            MaxFound)

LegistarScores == {1, 3, 10}

\* what LegistarDiscovery.discover_meetings returns over the cities
LegistarFound(cs) ==
    SeqUpTo(UNION {{Meeting([prefix |-> LegistarClient(c), native |-> n], c, t,
                            "legistar", sc) :
                        n \in LegistarEvents(c), t \in Titles,
                        sc \in LegistarScores} : c \in cs},
            MaxFound)

Effective(cs) == IF cs = {} THEN COLORADO_CITIES ELSE cs

\* what a pass saw: whether it returned an id the store already held, and
\* whether such a record differed from the stored one
Seen(ms, found) ==
    [NoCall EXCEPT
        !.stage = "discovery",
        !.existed = \E i \in DOMAIN found : Has(ms, found[i].id),
        !.differs = \E i \in DOMAIN found :
                        Has(ms, found[i].id) /\ Get(ms, found[i].id) # found[i]]

_phase_discovery(db, found) == StoreNew(db, found)

\* discover_all_granicus: opens its own store on the file
DiscoverAllGranicus(cs, found) ==
    /\ pc = "idle"
    /\ Republished(Load(file), found)
    /\ LET db == StoreNew([meetings |-> Load(file), file |-> file], found)
       IN  file' = db.file /\ fileState' = AfterStoring(db.file)
    /\ lastCall' = Seen(Load(file), found)
    /\ UNCHANGED <<meetings, disk, keys, pc, cities, unprocessed, idx, runlog,
                   helper, adapter, sleeps>>

\* discover_all_legistar: opens its own store on the file
DiscoverAllLegistar(cs, found) ==
    /\ pc = "idle"
    /\ Republished(Load(file), found)
    /\ LET db == StoreNew([meetings |-> Load(file), file |-> file], found)
       IN  file' = db.file /\ fileState' = AfterStoring(db.file)
    /\ lastCall' = Seen(Load(file), found)
    /\ UNCHANGED <<meetings, disk, keys, pc, cities, unprocessed, idx, runlog,
                   helper, adapter, sleeps>>

\* ------------------------------------------------------------ the run
\* MeetingPipeline() and run() up to the first record: open the store,
\* discover unless skipped, select the unprocessed records of the cities
Run(cs, skip_discovery, dk, ak, found) ==
    /\ pc = "idle"
    /\ Republished(Load(file), found)
    /\ LET opened == [meetings |-> Load(file), file |-> file]
           db == IF skip_discovery THEN opened
                 ELSE _phase_discovery(opened, found)
           todo == SelectSeq(list_unprocessed(db.meetings),
                             LAMBDA m : m.jurisdiction \in Effective(cs))
       IN  /\ meetings' = db.meetings
           /\ file' = db.file
           /\ fileState' = AfterStoring(db.file)
           /\ unprocessed' = [i \in DOMAIN todo |-> todo[i].id]
           /\ pc' = IF todo = <<>> THEN "summary" ELSE "download"
           /\ lastCall' = IF skip_discovery THEN NoCall
                          ELSE Seen(opened.meetings, found)
    /\ keys' = [deepgram |-> dk, anthropic |-> ak]
    /\ cities' = Effective(cs)
    /\ idx' = 1
    /\ runlog' = [id \in AllIds |-> <<>>]
    /\ sleeps' = 0
    /\ UNCHANGED <<disk, helper, adapter>>

Current == Get(meetings, unprocessed[idx])

AfterRecordStops == "summary"

AfterRecordGoesOn == "analyze"

AfterRecordPauses == "sleep"

AfterRecord == IF idx < Len(unprocessed) THEN "sleep" ELSE "summary"

PersistAndEndUnsaved(m) ==
    /\ meetings' = Upsert(meetings, m)
    /\ pc' = AfterRecord
    /\ UNCHANGED <<file, fileState>>

\* db.upsert(meeting) on the pipeline's store, ending the record
PersistAndEnd(m) ==
    LET db == DbUpsert([meetings |-> meetings, file |-> file], m)
    IN  /\ meetings' = db.meetings
        /\ file' = db.file
        /\ fileState' = "document"
        /\ pc' = AfterRecord

CaughtUntagged(m) == PersistAndEnd(m)

\* the except branch of run(): tag and persist the record as it then is
Caught(m) == PersistAndEnd([m EXCEPT !.error = "unexpected_error"])

Log(id, stage, res, external) ==
    runlog' = [runlog EXCEPT ![id] = Append(@, Event(stage, res, external))]

Called(stage, id, existed, r, path, data) ==
    lastCall' = [NoCall EXCEPT !.stage = stage, !.id = id, !.existed = existed,
                               !.external = r.external, !.raised = r.raised,
                               !.path = path, !.data = data,
                               !.stored = IF stage = "analyze"
                                          THEN analyses[id] ELSE NoContent]

\* an upsert inside _process_meeting: the write either goes through, or
\* raises (write_text failing) into the except branch of run(), whose own
\* upsert then goes through
Persist(m, w) == IF w = "raises" THEN Caught(m) ELSE PersistAndEnd(m)

Res(res, w) == IF w = "raises" THEN "raise" ELSE res

\* Step 1 of _process_meeting
Download(outcome, w) ==
    /\ pc = "download"
    /\ LET m == Current
           r == download_audio(m, audio[m.id], outcome)
       IN  /\ audio' = [audio EXCEPT ![m.id] = r.audio]
           /\ Called("download", m.id, AudioFormat \in audio[m.id], r, r.ret,
                     EmptyDict)
           /\ IF r.raised
              THEN Caught(m) /\ Log(m.id, "download", "raise", r.external)
              ELSE IF r.ret = NoPath
              THEN /\ Persist([m EXCEPT !.error = "download_failed"], w)
                   /\ Log(m.id, "download", Res("fail", w), r.external)
              ELSE /\ meetings' = Mutate(meetings, [m EXCEPT !.audio_path = r.ret])
                   /\ pc' = "transcribe"
                   /\ Log(m.id, "download", "ok", r.external)
                   /\ UNCHANGED <<file, fileState>>
    /\ UNCHANGED <<transcripts, analyses, summaries, keys, cities, unprocessed,
                   idx, helper, adapter, sleeps>>

\* Step 2 of _process_meeting, with format_transcript and the mention count
Transcribe(outcome, w) ==
    /\ pc = "transcribe"
    /\ LET m == Current
           r == transcribe(m, keys.deepgram, transcripts[m.id], outcome)
           m1 == [m EXCEPT !.transcript_path = r.ret]
           f == format_transcript(r.transcript)
       IN  IF ~keys.deepgram
           THEN /\ Persist([m EXCEPT !.error = "no_deepgram_key"], w)
                /\ Log(m.id, "transcribe", Res("unavailable", w), FALSE)
                /\ UNCHANGED <<transcripts, lastCall>>
           ELSE /\ transcripts' = [transcripts EXCEPT ![m.id] = r.transcript]
                /\ Called("transcribe", m.id, transcripts[m.id] # "none", r,
                          r.ret, EmptyDict)
                /\ IF r.raised
                   THEN Caught(m) /\ Log(m.id, "transcribe", "raise", r.external)
                   ELSE IF r.ret = NoPath
                   THEN /\ Persist([m EXCEPT !.error = "transcription_failed"], w)
                        /\ Log(m.id, "transcribe", Res("fail", w), r.external)
                   ELSE IF f.raised
                   THEN Caught(m1) /\ Log(m.id, "transcribe", "raise", r.external)
                   ELSE IF f.text = ""
                   THEN /\ Persist([m1 EXCEPT !.error = "empty_transcript"], w)
                        /\ Log(m.id, "transcribe", Res("empty", w), r.external)
                   ELSE /\ meetings' = Mutate(meetings,
                               [m1 EXCEPT !.housing_mentions =
                                              count_housing_mentions(f.text)])
                        /\ pc' = "analyze"
                        /\ Log(m.id, "transcribe", "ok", r.external)
                        /\ UNCHANGED <<file, fileState>>
    /\ UNCHANGED <<audio, analyses, summaries, keys, cities, unprocessed, idx,
                   helper, adapter, sleeps>>

ProcessedKeepsError(m, analysis) ==
    [m EXCEPT !.analysis_path = AnalysisPath(m.id),
              !.summary_path = SummaryPath(m.id),
              !.housing_relevance_score = analysis.score,
              !.processed = TRUE]

\* the write-back of a non-empty analysis
Processed(m, analysis) ==
    [m EXCEPT !.analysis_path = AnalysisPath(m.id),
              !.summary_path = SummaryPath(m.id),
              !.housing_relevance_score = analysis.score,
              !.processed = TRUE,
              !.error = ""]

\* Step 3 of _process_meeting and the final upsert
Analyze(outcome, w) ==
    /\ pc = "analyze"
    /\ LET m == Current
           r == analyze(m, keys.anthropic, analyses[m.id], summaries[m.id],
                        outcome)
           m1 == [m EXCEPT !.analysis_path = AnalysisPath(m.id),
                           !.summary_path = SummaryPath(m.id)]
       IN  IF ~keys.anthropic
           THEN /\ Persist([m EXCEPT !.error = "no_anthropic_key"], w)
                /\ Log(m.id, "analyze", Res("unavailable", w), FALSE)
                /\ UNCHANGED <<analyses, summaries, lastCall>>
           ELSE /\ analyses' = [analyses EXCEPT ![m.id] = r.analysis]
                /\ summaries' = [summaries EXCEPT ![m.id] = r.summary]
                /\ Called("analyze", m.id, analyses[m.id].kind # "none", r,
                          NoPath, r.ret)
                /\ IF r.raised
                   THEN Caught(m) /\ Log(m.id, "analyze", "raise", r.external)
                   ELSE IF ~Truthy(r.ret)
                   THEN /\ Persist([m EXCEPT !.error = "analysis_failed"], w)
                        /\ Log(m.id, "analyze", Res("fail", w), r.external)
                   ELSE IF r.ret.kind = "nondict"
                   THEN Caught(m1) /\ Log(m.id, "analyze", "raise", r.external)
                   ELSE /\ Persist(Processed(m, r.ret), w)
                        /\ Log(m.id, "analyze", Res("ok", w), r.external)
    /\ UNCHANGED <<audio, transcripts, keys, cities, unprocessed, idx, helper, adapter, sleeps>>

RateLimitSameRecord ==
    /\ pc = "sleep"
    /\ sleeps' = sleeps + 1
    /\ pc' = "download"
    /\ UNCHANGED <<file, fileState, helper, adapter, meetings, disk, keys,
                   cities, unprocessed, idx, runlog, lastCall>>

\* the pause between two records
RateLimit ==
    /\ pc = "sleep"
    /\ sleeps' = sleeps + 1
    /\ idx' = idx + 1
    /\ pc' = "download"
    /\ UNCHANGED <<file, fileState, helper, adapter, meetings, disk, keys, cities,
                   unprocessed, runlog,
                   lastCall>>

\* _print_summary ends the run, and with it the process: the pipeline
\* object and the locals of run() are gone
Summary ==
    /\ pc = "summary"
    /\ pc' = "idle"
    /\ meetings' = <<>>
    /\ keys' = [deepgram |-> TRUE, anthropic |-> TRUE]
    /\ cities' = {}
    /\ unprocessed' = <<>>
    /\ idx' = 0
    /\ runlog' = [id \in AllIds |-> <<>>]
    /\ lastCall' = NoCall
    /\ sleeps' = 0
    /\ UNCHANGED <<file, fileState, disk, helper, adapter>>

\* --------------------------------------------------- specifications
\* yt-dlp is asked for AudioFormat; the runs of Spec and PassSpec have it
\* honour the request (download_audio alone is exercised on every outcome
\* by StageSpec)
RunDownload == DownloadOutcomes \ {"altext"}

RunStep ==
    \/ \E o \in RunDownload : Download(o, "ok")
    \/ \E o \in TranscribeOutcomes : Transcribe(o, "ok")
    \/ \E o \in AnalyzeOutcomes : Analyze(o, "ok")
    \/ RateLimit
    \/ Summary

\* Spec: runs of the pipeline over the two channels, every stage outcome
Next ==
    \/ \E cs \in SUBSET COLORADO_CITIES, skip \in BOOLEAN, dk \in BOOLEAN,
          ak \in BOOLEAN :
          \E found \in IF skip THEN {<<>>} ELSE YoutubeFound(Effective(cs)) :
             Run(cs, skip, dk, ak, found)
    \/ RunStep

Spec == Init /\ [][Next]_vars

\* PassSpec: the three discovery passes and runs, all for one city, the
\* services configured, the stages either succeeding or failing with an
\* empty result
MainDownload == {"failed", "saved"}

MainTranscribe == {"error", "text"}

MainAnalyze == {[kind |-> "error", score |-> 0], [kind |-> "dict", score |-> 5]}

PassCities == {{"Denver"}}

PassKeys == {TRUE}

NextPass ==
    \/ \E cs \in PassCities, skip \in BOOLEAN, dk \in PassKeys, ak \in PassKeys :
          \E found \in IF skip THEN {<<>>} ELSE YoutubeFound(cs) :
             Run(cs, skip, dk, ak, found)
    \/ \E cs \in PassCities :
          \E found \in GranicusFound(cs) : DiscoverAllGranicus(cs, found)
    \/ \E cs \in PassCities :
          \E found \in LegistarFound(cs) : DiscoverAllLegistar(cs, found)
    \/ \E o \in MainDownload : Download(o, "ok")
    \/ \E o \in MainTranscribe : Transcribe(o, "ok")
    \/ \E o \in MainAnalyze : Analyze(o, "ok")
    \/ RateLimit
    \/ Summary

PassSpec == Init /\ [][NextPass]_vars

\* FaultSpec: Spec, where in addition a write of the store file may fail
StoreWrites == {"ok", "raises"}

FaultStep ==
    \/ \E o \in RunDownload, w \in StoreWrites : Download(o, w)
    \/ \E o \in TranscribeOutcomes, w \in StoreWrites : Transcribe(o, w)
    \/ \E o \in AnalyzeOutcomes, w \in StoreWrites : Analyze(o, w)
    \/ RateLimit
    \/ Summary

\* a run given every configured city is the run given none
FaultCities == (SUBSET COLORADO_CITIES) \ {COLORADO_CITIES}

NextFault ==
    \/ \E cs \in FaultCities, skip \in BOOLEAN, dk \in BOOLEAN,
          ak \in BOOLEAN :
          \E found \in IF skip THEN {<<>>} ELSE YoutubeFound(Effective(cs)) :
             Run(cs, skip, dk, ak, found)
    \/ FaultStep

FaultSpec == Init /\ [][NextFault]_vars

\* FaultLiveSpec: FaultSpec, where a run that has started keeps taking steps
FaultLiveSpec == FaultSpec /\ WF_vars(FaultStep)

\* LiveSpec: Spec, where a run that has started keeps taking steps: run() is
\* sequential code whose external calls and pauses all time out or return
LiveSpec == Spec /\ WF_vars(RunStep)

\* StageSpec: the three stage methods called directly, on any artifact
\* directory and key configuration.  An analysis file of kind "invalid" is
\* what an interrupted write_text leaves behind.
StageId == [prefix |-> "", native |-> 1]

StageMeeting == Meeting(StageId, "Denver", "t1", "youtube", 0)

StoredAnalyses ==
    {NoContent, EmptyDict, [kind |-> "dict", score |-> 5],
     [kind |-> "marker", score |-> 0], [kind |-> "nondict", score |-> 0],
     [kind |-> "invalid", score |-> 0]}

InitStage ==
    /\ file = <<>>
    /\ fileState = "absent"
    /\ input = <<>>
    /\ output = <<>>
    /\ sleeps = 0
    /\ page_skip = 0
    /\ all_results = <<>>
    /\ evt = 0
    /\ wire = <<>>
    /\ meetings = <<>>
    /\ \E a \in SUBSET {AudioFormat, AltFormat} :
          audio = [id \in AllIds |-> IF id = StageId THEN a ELSE {}]
    /\ \E t \in {"none", "text", "empty", "odd"} :
          transcripts = [id \in AllIds |-> IF id = StageId THEN t ELSE "none"]
    /\ \E c \in StoredAnalyses :
          analyses = [id \in AllIds |-> IF id = StageId THEN c ELSE NoContent]
    /\ \E b \in BOOLEAN :
          summaries = [id \in AllIds |-> id = StageId /\ b]
    /\ keys \in [deepgram : BOOLEAN, anthropic : BOOLEAN]
    /\ pc = "stage"
    /\ cities = {}
    /\ unprocessed = <<>>
    /\ idx = 0
    /\ runlog = [id \in AllIds |-> <<>>]
    /\ lastCall = NoCall

CallDownloadAudio(outcome) ==
    /\ pc = "stage"
    /\ LET r == download_audio(StageMeeting, audio[StageId], outcome)
       IN  /\ audio' = [audio EXCEPT ![StageId] = r.audio]
           /\ Called("download", StageId, AudioFormat \in audio[StageId], r,
                     r.ret, EmptyDict)
    /\ UNCHANGED <<file, fileState, helper, adapter, sleeps, meetings, transcripts, analyses, summaries, keys, pc,
                   cities, unprocessed, idx, runlog>>

\* transcribe is handed the path of an audio file that exists
CallTranscribe(outcome) ==
    /\ pc = "stage"
    /\ audio[StageId] # {}
    /\ LET r == transcribe(StageMeeting, keys.deepgram, transcripts[StageId],
                           outcome)
       IN  /\ transcripts' = [transcripts EXCEPT ![StageId] = r.transcript]
           /\ Called("transcribe", StageId, transcripts[StageId] # "none", r,
                     r.ret, EmptyDict)
    /\ UNCHANGED <<file, fileState, helper, adapter, sleeps, meetings, audio, analyses, summaries, keys, pc, cities,
                   unprocessed, idx, runlog>>

CallAnalyze(outcome) ==
    /\ pc = "stage"
    /\ LET r == analyze(StageMeeting, keys.anthropic, analyses[StageId],
                        summaries[StageId], outcome)
       IN  /\ analyses' = [analyses EXCEPT ![StageId] = r.analysis]
           /\ summaries' = [summaries EXCEPT ![StageId] = r.summary]
           /\ Called("analyze", StageId, analyses[StageId].kind # "none", r,
                     NoPath, r.ret)
    /\ UNCHANGED <<file, fileState, helper, adapter, sleeps, meetings, audio, transcripts, keys, pc, cities,
                   unprocessed, idx, runlog>>

NextStage ==
    \/ \E o \in DownloadOutcomes : CallDownloadAudio(o)
    \/ \E o \in TranscribeOutcomes : CallTranscribe(o)
    \/ \E o \in AnalyzeOutcomes : CallAnalyze(o)

StageSpec == InitStage /\ [][NextStage]_vars

\* StoreSpec: MeetingDatabase alone.  A process opens the store on the file,
\* upserts records and ends; it may be killed inside write_text, which has
\* truncated the file and written none or a part of the new document; and
\* between two processes the file may be damaged from outside.
\* records a caller may hand to upsert under one id
UpsertArgs(id) ==
    LET fresh == Meeting(id, "Denver", "t1", "youtube", 0)
    IN  {fresh, [fresh EXCEPT !.title = "t2"],
         [fresh EXCEPT !.error = "download_failed"],
         Processed([fresh EXCEPT !.audio_path = AudioPath(id, AudioFormat)],
                   [kind |-> "dict", score |-> 5])}

StoreRecords == UNION {UpsertArgs(id) : id \in YoutubeIds}

\* the file states whose content is not JSON
InvalidJson == {"empty", "partial", "garbage", "undecodable"}

\* MeetingDatabase._load: only JSONDecodeError and KeyError are caught.  A
\* file that is not text makes read_text raise UnicodeDecodeError, and a JSON
\* value that is no object of records makes the comprehension raise
\* AttributeError or TypeError.
_load(f, st) ==
    IF st = "absent" THEN [meetings |-> <<>>, raised |-> FALSE]
    ELSE IF st = "document" THEN [meetings |-> Load(f), raised |-> FALSE]
    ELSE IF st \in {"empty", "partial", "garbage"}
         THEN [meetings |-> <<>>, raised |-> FALSE]
    ELSE [meetings |-> <<>>, raised |-> TRUE]

\* MeetingDatabase(): an exception out of _load ends the process
OpenStore ==
    /\ pc = "idle"
    /\ LET r == _load(file, fileState)
       IN  /\ meetings' = r.meetings
           /\ pc' = IF r.raised THEN "idle" ELSE "store"
           /\ lastCall' = [NoCall EXCEPT !.stage = "open", !.raised = r.raised]
    /\ UNCHANGED <<file, fileState, disk, keys, cities, unprocessed, idx, runlog,
                   helper, adapter, sleeps>>

StoreUpsert(m) ==
    /\ pc = "store"
    /\ LET db == DbUpsert([meetings |-> meetings, file |-> file], m)
       IN  /\ meetings' = db.meetings
           /\ file' = db.file
    /\ fileState' = "document"
    /\ lastCall' = [NoCall EXCEPT !.stage = "upsert", !.id = m.id]
    /\ UNCHANGED <<disk, keys, pc, cities, unprocessed, idx, runlog, helper, adapter, sleeps>>

\* upsert, the process being killed inside save(): write_text has opened the
\* file for writing, which truncates it, and written the first k entries
StoreUpsertCut(m, left, k) ==
    /\ pc = "store"
    /\ LET doc == Save(Upsert(meetings, m))
       IN  /\ k < Len(doc)
           /\ file' = IF left = "empty" THEN <<>> ELSE SubSeq(doc, 1, k)
    /\ fileState' = left
    /\ meetings' = <<>>
    /\ pc' = "idle"
    /\ lastCall' = [NoCall EXCEPT !.stage = "cut", !.id = m.id]
    /\ UNCHANGED <<disk, keys, cities, unprocessed, idx, runlog, helper, adapter, sleeps>>

CloseStore ==
    /\ pc = "store"
    /\ pc' = "idle"
    /\ meetings' = <<>>
    /\ lastCall' = NoCall
    /\ UNCHANGED <<file, fileState, disk, keys, cities, unprocessed, idx, runlog,
                   helper, adapter, sleeps>>

\* the file is overwritten or damaged while no process has it open
Damage(st) ==
    /\ pc = "idle"
    /\ fileState # "absent"
    /\ file' = <<>>
    /\ fileState' = st
    /\ lastCall' = NoCall
    /\ UNCHANGED <<meetings, disk, keys, pc, cities, unprocessed, idx, runlog,
                   helper, adapter, sleeps>>

NextStore ==
    \/ OpenStore
    \/ \E m \in StoreRecords : StoreUpsert(m)
    \/ \E m \in StoreRecords, left \in {"empty", "partial"}, k \in 0..1 :
          StoreUpsertCut(m, left, k)
    \/ CloseStore
    \/ \E st \in {"garbage", "undecodable", "foreign"} : Damage(st)

StoreSpec == Init /\ [][NextStore]_vars

\* SitesSpec: the three discovery passes over any of the cities, and runs in
\* which every acquisition fails
NextSites ==
    \/ \E cs \in SUBSET COLORADO_CITIES, skip \in BOOLEAN :
          \E found \in IF skip THEN {<<>>} ELSE YoutubeFound(Effective(cs)) :
             Run(cs, skip, TRUE, TRUE, found)
    \/ \E cs \in SUBSET COLORADO_CITIES :
          \E found \in GranicusFound(Effective(cs)) :
             DiscoverAllGranicus(cs, found)
    \/ \E cs \in SUBSET COLORADO_CITIES :
          \E found \in LegistarFound(Effective(cs)) :
             DiscoverAllLegistar(cs, found)
    \/ Download("failed", "ok")
    \/ RateLimit
    \/ Summary

SitesSpec == Init /\ [][NextSites]_vars

\* ------------------------------------------------- helper functions
\* Text is a sequence of characters; in the bounded vocabularies below a
\* character stands for a letter or a word, " " is the blank.
Blank == " "

LowerChar(c) ==
    CASE c = "A" -> "a" [] c = "C" -> "c" [] c = "Z" -> "z"
      [] c = "J" -> "j" [] c = "X" -> "x" [] c = "T" -> "t"
      [] OTHER -> c

\* str.lower
Lower(t) == [i \in DOMAIN t |-> LowerChar(t[i])]

\* w in t
Contains(t, w) ==
    \E o \in 0..(Len(t) - Len(w)) : \A i \in 1..Len(w) : t[o + i] = w[i]

\* " ".join(parts)
RECURSIVE Join(_)
Join(parts) ==
    IF parts = <<>> THEN <<>>
    ELSE IF Len(parts) = 1 THEN parts[1]
    ELSE parts[1] \o <<Blank>> \o Join(Tail(parts))

\* str.strip
RECURSIVE Strip(_)
Strip(t) ==
    IF t = <<>> THEN t
    ELSE IF Head(t) = Blank THEN Strip(Tail(t))
    ELSE IF t[Len(t)] = Blank THEN Strip(SubSeq(t, 1, Len(t) - 1))
    ELSE t

Min(a, b) == IF a <= b THEN a ELSE b

\* HOUSING_KEYWORDS: entries in lower and in upper case, entries of several
\* words, entries contained in other entries
HOUSING_KEYWORDS ==
    << <<"a">>, <<"A", "b">>, <<"b">>, <<"c">>, <<"b", " ", "c">>,
       <<"c", " ", "a">>, <<"C", "a">> >>

\* housing, planning, land use, zoning
HousingBodyTerms == << <<"h">>, <<"p">>, <<"l", " ", "u">>, <<"z">> >>

\* the four texts of every agenda item, in the order the code appends them
RECURSIVE TextParts(_)
TextParts(items) ==
    IF items = <<>> THEN <<>>
    ELSE <<Head(items).title, Head(items).matter_name,
           Head(items).action_text, Head(items).matter_type>>
         \o TextParts(Tail(items))

\* sum(1 for kw in HOUSING_KEYWORDS if kw.lower() in combined)
RECURSIVE Matches(_, _)
Matches(kws, combined) ==
    IF kws = <<>> THEN 0
    ELSE (IF Contains(combined, Lower(Head(kws))) THEN 1 ELSE 0)
         + Matches(Tail(kws), combined)

_score_housing_relevanceUncapped(event) ==
    IF event.items = <<>>
    THEN IF \E i \in DOMAIN HousingBodyTerms :
               Contains(Lower(event.body_name), HousingBodyTerms[i])
         THEN 3 ELSE 1
    ELSE LET combined == Lower(Join(TextParts(event.items)))
         IN  IF Strip(combined) = <<>> THEN 1
             ELSE 2 * Matches(HOUSING_KEYWORDS, combined)

\* LegistarDiscovery._score_housing_relevance, in tenths
_score_housing_relevance(event) ==
    IF event.items = <<>>
    THEN IF \E i \in DOMAIN HousingBodyTerms :
               Contains(Lower(event.body_name), HousingBodyTerms[i])
         THEN 3 ELSE 1
    ELSE LET combined == Lower(Join(TextParts(event.items)))
         IN  IF Strip(combined) = <<>> THEN 1
             ELSE Min(10, 2 * Matches(HOUSING_KEYWORDS, combined))

\* ScoreSpec: _score_housing_relevance on events of at most MaxItems items
FieldTexts == {<<>>, <<"A", "b">>, <<"c", " ", "a">>, <<"c", "a">>}

BodyNames == {<<"Z">>, <<"l", " ", "u">>, <<"l", "u">>, <<"c">>}

EventItems ==
    [title : FieldTexts, matter_name : FieldTexts, action_text : FieldTexts,
     matter_type : FieldTexts]

Events17 == [body_name : BodyNames, items : SeqUpTo(EventItems, MaxItems)]

\* the state in which a helper function is about to be applied to its input
HelperInit(inputs) ==
    /\ file = <<>>
    /\ fileState = "absent"
    /\ meetings = <<>>
    /\ audio = [id \in AllIds |-> {}]
    /\ transcripts = [id \in AllIds |-> "none"]
    /\ analyses = [id \in AllIds |-> NoContent]
    /\ summaries = [id \in AllIds |-> FALSE]
    /\ keys = [deepgram |-> TRUE, anthropic |-> TRUE]
    /\ pc = "call"
    /\ cities = {}
    /\ unprocessed = <<>>
    /\ idx = 0
    /\ runlog = [id \in AllIds |-> <<>>]
    /\ lastCall = NoCall
    /\ input \in inputs
    /\ output = <<>>
    /\ sleeps = 0
    /\ page_skip = 0
    /\ all_results = <<>>
    /\ evt = 0
    /\ wire = <<>>

Returned(value) ==
    /\ pc = "call"
    /\ pc' = "returned"
    /\ output' = value
    /\ UNCHANGED <<file, fileState, meetings, disk, keys, cities, unprocessed,
                   idx, runlog, lastCall, input, adapter, sleeps>>

ScoreEvent == Returned(<<_score_housing_relevance(input)>>)

ScoreSpec == HelperInit(Events17) /\ [][ScoreEvent]_vars

\* DateSpec: MeetingDiscovery._extract_date on titles of at most MaxParts
\* phrases
Digits == {"0", "1", "2", "3", "4", "5", "6", "7", "8", "9"}

\* a character that str.isdigit accepts and int() rejects
Superscript == "^2"

Letters == {"J", "j", "a", "n", "m", "y", "X", "x"}

\* the classes \w and \s of the patterns
WordChars == Digits \cup Letters \cup {Superscript}

SpaceChars == {Blank}

DigitVal(c) ==
    CASE c = "0" -> 0 [] c = "1" -> 1 [] c = "2" -> 2 [] c = "3" -> 3
      [] c = "4" -> 4 [] c = "5" -> 5 [] c = "6" -> 6 [] c = "7" -> 7
      [] c = "8" -> 8 [] c = "9" -> 9

DigitChar(v) == CHOOSE c \in Digits : DigitVal(c) = v

\* the character at position i, "" past the end of the text
At(t, i) == IF i \in DOMAIN t THEN t[i] ELSE ""

\* the last position of the run of characters of class cls that starts at
\* position i (i - 1 when the character at i is not of the class)
RECURSIVE RunEnd(_, _, _)
RunEnd(t, i, cls) == IF At(t, i) \in cls THEN RunEnd(t, i + 1, cls) ELSE i - 1

NoMatch == [found |-> FALSE, month |-> <<>>, day |-> <<>>, year |-> <<>>]

Groups(t, m1, m2, d1, d2, y) ==
    [found |-> TRUE, month |-> SubSeq(t, m1, m2), day |-> SubSeq(t, d1, d2),
     year |-> SubSeq(t, y, y + 3)]

FourDigits(t, y) == \A k \in 0..3 : At(t, y + k) \in Digits

\* one or two digits, as many as there are
TwoDigitEnd(t, d) == IF At(t, d + 1) \in Digits THEN d + 1 ELSE d

\* (?P<month>\w+)\s+(?P<day>\d{1,2}),?\s+(?P<year>\d{4}) matched at s
MonthNameAt(t, s) ==
    LET e == RunEnd(t, s, WordChars)
        d1 == RunEnd(t, e + 1, SpaceChars) + 1
        d2 == TwoDigitEnd(t, d1)
        c == IF At(t, d2 + 1) = "," THEN d2 + 2 ELSE d2 + 1
        y == RunEnd(t, c, SpaceChars) + 1
    IN  IF /\ At(t, s) \in WordChars
           /\ At(t, e + 1) \in SpaceChars
           /\ At(t, d1) \in Digits
           /\ At(t, c) \in SpaceChars
           /\ FourDigits(t, y)
        THEN Groups(t, s, e, d1, d2, y)
        ELSE NoMatch

\* (?P<month>\d{1,2})[/\-](?P<day>\d{1,2})[/\-](?P<year>\d{4}) matched at s
NumericAt(t, s) ==
    LET m2 == TwoDigitEnd(t, s)
        d1 == m2 + 2
        d2 == TwoDigitEnd(t, d1)
        y == d2 + 2
    IN  IF /\ At(t, s) \in Digits
           /\ At(t, m2 + 1) \in {"/", "-"}
           /\ At(t, d1) \in Digits
           /\ At(t, d2 + 1) \in {"/", "-"}
           /\ FourDigits(t, y)
        THEN Groups(t, s, m2, d1, d2, y)
        ELSE NoMatch

\* (?P<year>\d{4})-(?P<month>\d{1,2})-(?P<day>\d{1,2}) matched at s
IsoAt(t, s) ==
    LET m1 == s + 5
        m2 == TwoDigitEnd(t, m1)
        d1 == m2 + 2
        d2 == TwoDigitEnd(t, d1)
    IN  IF /\ FourDigits(t, s)
           /\ At(t, s + 4) = "-"
           /\ At(t, m1) \in Digits
           /\ At(t, m2 + 1) = "-"
           /\ At(t, d1) \in Digits
        THEN Groups(t, m1, m2, d1, d2, s)
        ELSE NoMatch

DATE_PATTERNS == <<"month_name", "numeric", "iso">>

MatchAt(pattern, t, s) ==
    CASE pattern = "month_name" -> MonthNameAt(t, s)
      [] pattern = "numeric" -> NumericAt(t, s)
      [] pattern = "iso" -> IsoAt(t, s)

\* pattern.search(title): the match at the leftmost position that has one
RECURSIVE SearchFrom(_, _, _)
SearchFrom(pattern, t, s) ==
    IF s > Len(t) THEN NoMatch
    ELSE IF MatchAt(pattern, t, s).found THEN MatchAt(pattern, t, s)
    ELSE SearchFrom(pattern, t, s + 1)

MONTH_MAP ==
    [name \in {<<"j", "a", "n">>, <<"m", "a", "y">>} |->
        IF name = <<"j", "a", "n">> THEN 1 ELSE 5]

\* str.isdigit
isdigit(t) == t # <<>> /\ \A i \in DOMAIN t : t[i] \in Digits \cup {Superscript}

\* int(t) raises ValueError
IntRaises(t) == \E i \in DOMAIN t : t[i] \notin Digits

\* int(t)
RECURSIVE IntOf(_)
IntOf(t) ==
    IF t = <<>> THEN 0
    ELSE 10 * IntOf(SubSeq(t, 1, Len(t) - 1)) + DigitVal(t[Len(t)])

\* f"{n:0{width}d}"
RECURSIVE Padded(_, _)
Padded(n, width) ==
    IF n < 10 /\ width <= 1 THEN <<DigitChar(n)>>
    ELSE Padded(n \div 10, width - 1) \o <<DigitChar(n % 10)>>

\* the body of the loop of _extract_date for one match: the date string, or
\* no date when the loop continues with the next pattern
ParseMatch(m) ==
    LET month_int ==
            IF isdigit(m.month) THEN IntOf(m.month)
            ELSE IF Lower(m.month) \in DOMAIN MONTH_MAP
                 THEN MONTH_MAP[Lower(m.month)]
                 ELSE 0
    IN  IF isdigit(m.month) /\ IntRaises(m.month)
        THEN [ok |-> FALSE, date |-> <<>>]
        ELSE IF month_int = 0 THEN [ok |-> FALSE, date |-> <<>>]
        ELSE [ok |-> TRUE,
              date |-> Padded(IntOf(m.year), 4) \o <<"-">>
                       \o Padded(month_int, 2) \o <<"-">>
                       \o Padded(IntOf(m.day), 2)]

RECURSIVE ExtractFrom(_, _)
ExtractFrom(title, i) ==
    IF i > Len(DATE_PATTERNS) THEN <<>>
    ELSE LET m == SearchFrom(DATE_PATTERNS[i], title, 1)
         IN  IF m.found /\ ParseMatch(m).ok THEN ParseMatch(m).date
             ELSE ExtractFrom(title, i + 1)

\* MeetingDiscovery._extract_date
_extract_date(title) == ExtractFrom(title, 1)

\* phrases of titles: a date of each family, a match of each family that
\* does not parse, and fillers
TitleParts ==
    { <<"J", "a", "n", " ", "3", ",", " ", "2", "0", "2", "5">>,
      <<"X", " ", "3", " ", "2", "0", "2", "5">>,
      <<"^2", " ", "3", " ", "2", "0", "2", "5">>,
      <<"3", "/", "1", "2", "/", "2", "0", "2", "5">>,
      <<"0", "/", "3", "/", "2", "0", "2", "5">>,
      <<"2", "0", "2", "5", "-", "3", "-", "1", "2">>,
      <<"2", "0", "2", "5", "-", "0", "-", "3">>,
      <<" ">>, <<"X">>, <<"3">> }

RECURSIVE Concat(_)
Concat(parts) ==
    IF parts = <<>> THEN <<>> ELSE Head(parts) \o Concat(Tail(parts))

DateTitles == {Concat(ps) : ps \in SeqUpTo(TitleParts, MaxParts)}

ExtractDate == Returned(<<_extract_date(input)>>)

DateSpec == HelperInit(DateTitles) /\ [][ExtractDate]_vars

\* JsonSpec: HousingAnalyzer._extract_json on response texts of at most
\* MaxParts phrases. A text is a sequence of lexical units: "fence" is a run
\* of three backquotes, "json" the word after a fence, "m" a member
\* "key": true, "k" a key with its colon, "7" a digit, "x" a word of prose,
\* "deep" an array nested beyond the interpreter's recursion limit.
Fence == "fence"

Failed == [st |-> "error", next |-> 0, val |-> <<>>]

Overflow == [st |-> "recursion", next |-> 0, val |-> <<>>]

Parsed(next, val) == [st |-> "ok", next |-> next, val |-> val]

\* the first position from i on that holds no whitespace
SkipWs(t, i) == RunEnd(t, i, SpaceChars) + 1

\* the JSON decoder scanning one value from position i, left to right
RECURSIVE ScanValue(_, _)
ScanValue(t, i) ==
    LET j == SkipWs(t, i)
        k == SkipWs(t, j + 1)
        inner == ScanValue(t, k + 1)
        n == RunEnd(t, j, {"7"})
    IN  IF At(t, j) = "7" THEN Parsed(n + 1, SubSeq(t, j, n))
        ELSE IF At(t, j) = "deep" THEN Overflow
        ELSE IF At(t, j) # "{" THEN Failed
        ELSE IF At(t, k) = "}" THEN Parsed(k + 1, <<"{", "}">>)
        ELSE IF At(t, k) = "m"
             THEN IF At(t, SkipWs(t, k + 1)) = "}"
                  THEN Parsed(SkipWs(t, k + 1) + 1, <<"{", "m", "}">>)
                  ELSE Failed
        ELSE IF At(t, k) = "k"
             THEN IF inner.st # "ok" THEN inner
                  ELSE IF At(t, SkipWs(t, inner.next)) = "}"
                       THEN Parsed(SkipWs(t, inner.next) + 1,
                                   <<"{", "k">> \o inner.val \o <<"}">>)
                       ELSE Failed
        ELSE Failed

\* json.loads(t): the value, JSONDecodeError ("error") or RecursionError
loads(t) ==
    LET r == ScanValue(t, 1)
    IN  IF r.st # "ok" THEN r
        ELSE IF SkipWs(t, r.next) > Len(t) THEN r
        ELSE Failed

NoSpan == [found |-> FALSE, group |-> <<>>]

\* fence (?:json)?\s*(\{.*?\})\s* fence matched at s: the group is the shortest
\* span from the brace to a closing brace that a fence follows
FenceAt(t, s) ==
    LET a == IF At(t, s + 1) = "json" THEN s + 2 ELSE s + 1
        g == SkipWs(t, a)
        ends == {e \in (g + 1)..Len(t) :
                    At(t, e) = "}" /\ At(t, SkipWs(t, e + 1)) = Fence}
    IN  IF At(t, s) = Fence /\ At(t, g) = "{" /\ ends # {}
        THEN [found |-> TRUE,
              group |-> SubSeq(t, g, CHOOSE e \in ends : \A f \in ends : e <= f)]
        ELSE NoSpan

RECURSIVE FenceSearch(_, _)
FenceSearch(t, s) ==
    IF s > Len(t) THEN NoSpan
    ELSE IF FenceAt(t, s).found THEN FenceAt(t, s)
    ELSE FenceSearch(t, s + 1)

\* \{.*\} : from the first opening brace to the last closing brace after it
BraceSearch(t) ==
    LET opens == {i \in DOMAIN t : t[i] = "{"}
        first == CHOOSE i \in opens : \A j \in opens : i <= j
        closes == {i \in DOMAIN t : t[i] = "}" /\ i > first}
        last == CHOOSE i \in closes : \A j \in closes : i >= j
    IN  IF opens = {} THEN NoSpan
        ELSE IF closes = {} THEN NoSpan
        ELSE [found |-> TRUE, group |-> SubSeq(t, first, last)]

Result(r) == [raised |-> r.st = "recursion",
              value |-> IF r.st = "ok" THEN r.val ELSE <<>>]

\* the empty dict
EmptyResult == [raised |-> FALSE, value |-> <<"{", "}">>]

\* HousingAnalyzer._extract_json on a response text
_extract_json_text(text) ==
    LET fence_match == FenceSearch(text, 1)
        brace_match == BraceSearch(text)
    IN  IF fence_match.found /\ loads(fence_match.group).st # "error"
        THEN Result(loads(fence_match.group))
        ELSE IF loads(text).st # "error" THEN Result(loads(text))
        ELSE IF brace_match.found /\ loads(brace_match.group).st # "error"
             THEN Result(loads(brace_match.group))
        ELSE EmptyResult

\* phrases of response texts
ResponseParts ==
    { <<"fence", "json", " ", "{", "m", "}", " ", "fence">>,
      <<"fence", "{", "x", "}", "fence">>,
      <<"{", "k", "{", "}", "}">>,
      <<"{", "m", "}">>,
      <<"{", "k", "deep", "}">>,
      <<"x">>, <<" ">>, <<"7">>, <<"deep">>, <<"{">>, <<"}">>, <<"fence">> }

Responses == {Concat(ps) : ps \in SeqUpTo(ResponseParts, MaxParts)}

ExtractJson == Returned(<<_extract_json_text(input)>>)

JsonSpec == HelperInit(Responses) /\ [][ExtractJson]_vars

\* FormatSpec: TranscriptionService.format_transcript on the documents of
\* the speech service.  A document has the utterances under "results" and at
\* top level (<<>> when the key is absent or the list empty), and the first
\* alternative of the first channel with its paragraphs and flat transcript.
Label == "[Speaker]: "

ParagraphBreak == "\n\n"

\* the labelled lines of the texts that are not blank, joined by blank lines
RECURSIVE LabelledLines(_)
LabelledLines(texts) ==
    IF texts = <<>> THEN <<>>
    ELSE LET rest == LabelledLines(Tail(texts))
             line == <<Label>> \o Strip(Head(texts))
         IN  IF Strip(Head(texts)) = <<>> THEN rest
             ELSE IF rest = <<>> THEN line
             ELSE line \o <<ParagraphBreak>> \o rest

\* " ".join(s.get("text", "") for s in para.get("sentences", []))
Sentences(paragraphs) == [i \in DOMAIN paragraphs |-> Join(paragraphs[i])]

Text(t) == [raised |-> FALSE, text |-> t]

Raises == [raised |-> TRUE, text |-> <<>>]

\* format_transcript on the parsed document; shape "unreadable" is a file
\* that is missing or not JSON, "list" a JSON document that is no object
format_transcript_data(data) ==
    LET utterances == IF data.results_utterances # <<>>
                      THEN data.results_utterances ELSE data.utterances
    IN  IF data.shape = "unreadable" THEN Text(<<>>)
        ELSE IF data.shape = "list" THEN Raises
        ELSE IF utterances # <<>> THEN Text(LabelledLines(utterances))
        ELSE IF data.channels = "empty" THEN Raises
        ELSE IF data.channels = "absent" THEN Text(<<>>)
        ELSE IF data.paragraphs # <<>>
             THEN Text(LabelledLines(Sentences(data.paragraphs)))
        ELSE Text(data.transcript)

Speech == {<<>>, <<" ">>, <<"h">>}

Paragraphs == {<<>>, << <<>>, <<" ">> >>, << <<"h">>, <<>> >>}

Documents ==
    [shape : {"object"},
     results_utterances : SeqUpTo(Speech, MaxLines),
     utterances : {<<>>, << <<"h">> >>},
     channels : {"absent", "empty", "present"},
     paragraphs : SeqUpTo(Paragraphs, MaxLines),
     transcript : Speech]
    \cup [shape : {"unreadable", "list"}, results_utterances : {<<>>},
          utterances : {<<>>}, channels : {"absent"}, paragraphs : {<<>>},
          transcript : {<<>>}]

FormatTranscript == Returned(<<format_transcript_data(input)>>)

FormatSpec == HelperInit(Documents) /\ [][FormatTranscript]_vars

\* PageSpec: LegistarDiscovery._api_get_paginated on a collection of n
\* items with page size page_size, and, for the events endpoint, the item
\* requests discover_meetings then makes for each event it was given.
\* A request is answered with its page ("ok"), fails with a
\* RequestException ("fail"), or is answered with a JSON object ("object").
ApiOutcomes == {"ok", "fail", "object"}

Collection(n) == [i \in 1..n |-> i]

\* the server's answer to $top = top, $skip = skp
Page(n, top, skp) == SubSeq(Collection(n), skp + 1, Min(skp + top, n))

\* endpoint.endswith("s")
EndsWithS(endpoint) == endpoint \in {"/events", "/eventitems"}

\* what _api_get returns
_api_get(endpoint, outcome, page) ==
    IF outcome = "fail"
    THEN [list |-> EndsWithS(endpoint), items |-> <<>>]
    ELSE IF outcome = "object" THEN [list |-> FALSE, items |-> <<>>]
    ELSE [list |-> TRUE, items |-> page]

\* what _api_get puts on the wire: the request, and the rate-limit delay
\* when the request did not raise
OnWire(endpoint, skp, outcome) ==
    <<[op |-> "get", endpoint |-> endpoint, skip |-> skp, res |-> outcome]>>
    \o (IF outcome = "fail" THEN <<>>
        ELSE <<[op |-> "sleep", endpoint |-> endpoint, skip |-> skp,
                res |-> outcome]>>)

AccumulateLatest(all, data) == data

\* all_results.extend(data)
Accumulate(all, data) == all \o data

ShortOrFullPage(data, size) == Len(data) <= size

\* len(data) < self.page_size
ShortPage(data, size) == Len(data) < size

\* one iteration of the loop of _api_get_paginated; when the loop ends the
\* function returns all_results
PageRequest(outcome) ==
    /\ pc \in {"call", "page"}
    /\ LET data == _api_get(input.endpoint, outcome,
                            Page(input.n, input.page_size, page_skip))
           all == IF data.list THEN Accumulate(all_results, data.items)
                  ELSE all_results
           more == data.list /\ ~ShortPage(data.items, input.page_size)
       IN  /\ wire' = wire \o OnWire(input.endpoint, page_skip, outcome)
           /\ all_results' = all
           /\ page_skip' = IF more THEN page_skip + input.page_size
                           ELSE page_skip
           /\ output' = IF more THEN output ELSE <<all>>
           /\ evt' = IF more THEN evt ELSE 1
           /\ pc' = IF more THEN "page"
                    ELSE IF input.endpoint = "/events" /\ all # <<>>
                         THEN "items"
                    ELSE "returned"
    /\ UNCHANGED <<file, fileState, meetings, disk, keys, cities, unprocessed,
                   idx, runlog, lastCall, input, sleeps>>

\* _fetch_event_items for the next event of discover_meetings
ItemsRequest(outcome) ==
    /\ pc = "items"
    /\ wire' = wire \o OnWire("/eventitems", 0, outcome)
    /\ evt' = evt + 1
    /\ pc' = IF evt < Len(all_results) THEN "items" ELSE "returned"
    /\ UNCHANGED <<file, fileState, meetings, disk, keys, cities, unprocessed,
                   idx, runlog, lastCall, input, output, sleeps, page_skip,
                   all_results>>

PageInputs ==
    [n : 0..MaxEvents, page_size : 1..MaxPage, endpoint : {"/events", "/event"}]

NextPage ==
    \/ \E o \in ApiOutcomes : PageRequest(o)
    \/ \E o \in ApiOutcomes : ItemsRequest(o)

PageSpec == HelperInit(PageInputs) /\ [][NextPage]_vars

\* ------------------------------------------------------------- claims
Stored == Load(file)

Batch == {unprocessed[i] : i \in DOMAIN unprocessed}

Events(id) == {runlog[id][i] : i \in DOMAIN runlog[id]}

DownloadFailed(id) ==
    runlog[id] # <<>> /\ runlog[id][1] = Event("download", "fail", TRUE)

AllStagesOk(id) ==
    /\ Len(runlog[id]) = 3
    /\ \A i \in 1..3 : runlog[id][i].res = "ok"

Raised(id) == \E e \in Events(id) : e.res = "raise"

\* the record at position i of the batch has left _process_meeting
Ended(i) == i < idx \/ (i = idx /\ pc \in {"sleep", "summary"})

InRun == pc \in {"download", "transcribe", "analyze", "sleep", "summary"}

\* C1: at the end of a run in which the only failures were failed
\* acquisitions, every record of the batch is in the persisted store, the
\* records whose acquisition failed carry error "download_failed" and are
\* unprocessed, and all the others are processed
C1_PartialFailureIsolation ==
    (/\ pc = "summary"
     /\ \A id \in Batch : \A e \in Events(id) :
            e.res = "ok" \/ e = Event("download", "fail", TRUE))
    => \A id \in Batch :
          /\ Has(Stored, id)
          /\ IF DownloadFailed(id)
             THEN Get(Stored, id).error = "download_failed"
                  /\ ~Get(Stored, id).processed
             ELSE Get(Stored, id).processed

C1_Witness ==
    /\ pc = "summary"
    /\ Len(unprocessed) = 3
    /\ AllStagesOk(unprocessed[1])
    /\ DownloadFailed(unprocessed[2])
    /\ AllStagesOk(unprocessed[3])
    /\ Get(Stored, unprocessed[2]).error = "download_failed"

\* C2: in the persisted store and in the pipeline's in-memory store, a
\* processed record has an analysis path and no error tag
C2_ProcessedImpliesAnalysed ==
    \A ms \in {Stored, meetings} : \A i \in DOMAIN ms :
        ms[i].processed => (ms[i].analysis_path # NoPath /\ ms[i].error = "")

Count(ms, id) == Cardinality({i \in DOMAIN ms : ms[i].id = id})

\* C5: on every store the pipeline holds, upsert(r1) then upsert(r2) with
\* one id leaves one entry under the id, in memory and in the file, equal to
\* r2, and every entry of another id as it was
C5_IdempotentUpsert ==
    \A id \in YoutubeIds : \A r1, r2 \in UpsertArgs(id) :
        LET db0 == [meetings |-> meetings, file |-> file]
            db == DbUpsert(DbUpsert(db0, r1), r2)
        IN  /\ Count(db.meetings, id) = 1
            /\ Get(db.meetings, id) = r2
            /\ Count(Load(db.file), id) = 1
            /\ Get(Load(db.file), id) = r2
            /\ \A j \in DOMAIN meetings :
                  meetings[j].id # id =>
                      /\ db.meetings[j] = meetings[j]
                      /\ Load(db.file)[j] = meetings[j]
            /\ Len(db.meetings) = Len(meetings) + (IF Has(meetings, id) THEN 0 ELSE 1)

\* the pipeline upserted a record at discovery and again when its download
\* failed, next to another record
C5_Witness ==
    /\ pc \in {"sleep", "summary"}
    /\ Len(meetings) = 2
    /\ \E i \in DOMAIN meetings : meetings[i].error = "download_failed"
    /\ \A id \in YoutubeIds : Count(meetings, id) = 1 /\ Count(Stored, id) = 1

Keys(f) == {f[i].key : i \in DOMAIN f}

\* C6: a step taken from idle is a discovery pass (of a run, of
\* discover_all_granicus or of discover_all_legistar): it leaves every entry
\* of the file as it was and in place, appends only ids the file did not
\* hold, and creates no second entry for an id
C6_DiscoveryKeepsKnown ==
    [][pc = "idle" =>
          /\ Len(file') >= Len(file)
          /\ \A i \in DOMAIN file : file'[i] = file[i]
          /\ \A j \in DOMAIN file' : j > Len(file) => file'[j].key \notin Keys(file)
          /\ \A i, j \in DOMAIN file' : file'[i].key = file'[j].key => i = j]_vars

\* a pass has just returned, under another title, a record that the store
\* holds as processed
C6_Witness ==
    /\ pc = "idle"
    /\ lastCall.stage = "discovery"
    /\ lastCall.existed
    /\ lastCall.differs
    /\ \E i \in DOMAIN Stored : Stored[i].processed /\ Stored[i].source = "legistar"
    /\ \E i \in DOMAIN Stored : Stored[i].source = "granicus"
    /\ \E i \in DOMAIN Stored : Stored[i].source = "youtube"

PathFields == {"audio_path", "transcript_path", "analysis_path", "summary_path"}

\* C8: a path field that is set in the persisted store is set in every
\* later persisted store
C8_MonotonicProgress ==
    [][\A i \in DOMAIN file : \A f \in PathFields :
          file[i].value[f] # NoPath =>
              \E j \in DOMAIN file' :
                  file'[j].key = file[i].key /\ file'[j].value[f] # NoPath]_vars

\* a record whose transcript path was persisted by an earlier run has failed
\* again in a later one
C8_Witness ==
    \E i \in DOMAIN Stored :
        /\ Stored[i].transcript_path # NoPath
        /\ Stored[i].error = "no_deepgram_key"

Range(q) == {q[i] : i \in DOMAIN q}

\* C10: a run selects every persisted record that is unprocessed and of one
\* of its cities, whatever its error tag, and the first stage a record goes
\* through in a run is acquisition
C10_AlwaysRetry ==
    [][/\ (pc = "idle" /\ pc' # "idle") =>
             \A i \in DOMAIN file' :
                 (~file'[i].value.processed
                  /\ file'[i].value.jurisdiction \in cities')
                     => file'[i].key \in Range(unprocessed')
       /\ \A id \in AllIds :
             (runlog[id] = <<>> /\ runlog'[id] # <<>>) =>
                 (pc = "download" /\ runlog'[id][1].stage = "download")]_vars

\* a record that an earlier run left with an error is in acquisition again
C10_Witness ==
    /\ pc = "download"
    /\ Get(meetings, unprocessed[idx]).error = "unexpected_error"
    /\ Get(meetings, unprocessed[idx]).transcript_path # NoPath

ArtifactReturned ==
    /\ lastCall.stage = "download" =>
          lastCall.path = AudioPath(lastCall.id, AudioFormat)
    /\ lastCall.stage = "transcribe" =>
          lastCall.path = TranscriptPath(lastCall.id)
    /\ lastCall.stage = "analyze" =>
          /\ lastCall.data = lastCall.stored
          /\ analyses[lastCall.id] = lastCall.stored

\* C4 as stated: a stage invoked while its artifact exists makes no external
\* call and returns the existing artifact unchanged
C4_CacheByExistence ==
    (lastCall.stage \in {"download", "transcribe", "analyze"} /\ lastCall.existed)
        => (~lastCall.external /\ ArtifactReturned)

\* C4 amended: download_audio always reuses an existing audio file;
\* transcribe and analyze return an empty result without any external call
\* when their service key is not set; with the key set transcribe returns
\* the existing transcript path, and analyze returns the stored analysis
\* when it parses as JSON and otherwise repeats the external call
C4_CacheByExistenceAmended ==
    (lastCall.stage \in {"download", "transcribe", "analyze"} /\ lastCall.existed)
        => /\ lastCall.stage = "download" => (~lastCall.external /\ ArtifactReturned)
           /\ lastCall.stage = "transcribe" =>
                 /\ ~lastCall.external
                 /\ lastCall.path = IF keys.deepgram
                                    THEN TranscriptPath(lastCall.id) ELSE NoPath
           /\ lastCall.stage = "analyze" =>
                 IF ~keys.anthropic
                 THEN ~lastCall.external /\ lastCall.data = EmptyDict
                 ELSE IF lastCall.stored.kind = "invalid"
                 THEN lastCall.external
                 ELSE ~lastCall.external /\ ArtifactReturned

C4_Witness ==
    /\ lastCall.stage = "analyze"
    /\ lastCall.existed
    /\ keys.anthropic
    /\ lastCall.stored.kind = "dict"
    /\ lastCall.data = lastCall.stored

\* C11: a store opened on a file whose content is not valid JSON is open and
\* empty, and the opening raised nothing
C11_CorruptStoreRecovery ==
    (lastCall.stage = "open" /\ fileState \in InvalidJson)
        => (~lastCall.raised /\ pc = "store" /\ meetings = <<>>)

\* C12: whatever happens to a process that holds the store open on a
\* complete document, the file afterwards is a complete document, the
\* previous one or the new one, and a store opened on it holds every record
\* that was persisted
C12_AtomicReplace ==
    [][(pc = "store" /\ fileState = "document") =>
          /\ fileState' = "document"
          /\ \/ file' = file
             \/ \E m \in StoreRecords : file' = Save(Upsert(meetings, m))
          /\ \A i \in DOMAIN file :
                Has(_load(file', fileState').meetings, file[i].key)]_vars

\* two records of one source meeting: same adapter, same site or client (the
\* jurisdiction it is configured for) and same source-native id
SameSource(a, b) ==
    a.id = b.id /\ a.source = b.source /\ a.jurisdiction = b.jurisdiction

\* C13: after a discovery pass every source meeting it returned has its
\* record in the store: no record is dropped because another source
\* meeting holds its id
C13_GloballyUniqueIds ==
    [][\A cs \in SUBSET COLORADO_CITIES :
          \A found \in GranicusFound(Effective(cs))
                        \cup LegistarFound(Effective(cs))
                        \cup YoutubeFound(Effective(cs)) :
              (\/ DiscoverAllGranicus(cs, found)
               \/ DiscoverAllLegistar(cs, found)
               \/ Run(cs, FALSE, TRUE, TRUE, found))
                  => \A i \in DOMAIN found :
                        \E j \in DOMAIN file' :
                            SameSource(file'[j].value, found[i])]_vars

\* no stage of the current record has changed the in-memory store since the
\* latest upsert returned
UpsertReturned ==
    \/ pc \in {"sleep", "summary"}
    \/ pc = "download" /\ runlog[unprocessed[idx]] = <<>>

\* C14: whenever an upsert of the pipeline has returned, the file is a
\* complete document with one entry per record of the in-memory store, keyed
\* by its id, and a store opened on the file returns for every id the record
\* that get(id) returns on the writing instance
C14_UpsertPersistsWholeStore ==
    (UpsertReturned /\ meetings # <<>>) =>
        /\ fileState = "document"
        /\ Len(file) = Len(meetings)
        /\ \A i \in DOMAIN meetings : file[i].key = meetings[i].id
        /\ LET reopened == _load(file, fileState)
           IN  /\ ~reopened.raised
               /\ \A i \in DOMAIN meetings :
                     /\ Has(reopened.meetings, meetings[i].id)
                     /\ Get(reopened.meetings, meetings[i].id) = meetings[i]

\* the run has persisted a processed record and then a record whose analysis
\* failed after its audio and transcript paths were assigned
C14_Witness ==
    /\ pc = "summary"
    /\ Len(meetings) = 2
    /\ meetings[1].processed
    /\ meetings[2].error = "analysis_failed"
    /\ meetings[2].transcript_path # NoPath
    /\ Load(file) = meetings

Ids(ms) == {ms[i].id : i \in DOMAIN ms}

\* C15: no step removes an id from the store file, no step of a process
\* that holds the store open removes an id from its in-memory store, and a
\* record whose processing ends with an error tag is in both
C15_NoDeletes ==
    [][/\ Keys(file) \subseteq Keys(file')
       /\ pc' # "idle" => Ids(meetings) \subseteq Ids(meetings')
       /\ \A i \in DOMAIN meetings' :
             (meetings'[i].error # "" /\ pc' # "idle")
                 => meetings'[i].id \in Keys(file')]_vars

\* a store of three records at the end of a run: two have failed and are
\* retained with their tags next to a processed one
C15_Witness ==
    /\ pc = "summary"
    /\ Len(meetings) = 3
    /\ Cardinality(Keys(file)) = 3
    /\ \E i, j, k \in DOMAIN Stored :
          /\ Stored[i].error = "download_failed"
          /\ Stored[j].error = "transcription_failed"
          /\ Stored[k].processed

ErrorTags ==
    {"", "download_failed", "transcription_failed", "no_deepgram_key",
     "empty_transcript", "analysis_failed", "no_anthropic_key",
     "unexpected_error"}

\* the tag the taxonomy gives to the condition that ended a record
TagOf(e) ==
    IF e.res = "raise" THEN "unexpected_error"
    ELSE IF e.stage = "download" /\ e.res = "fail" THEN "download_failed"
    ELSE IF e.stage = "transcribe" /\ e.res = "unavailable" THEN "no_deepgram_key"
    ELSE IF e.stage = "transcribe" /\ e.res = "fail" THEN "transcription_failed"
    ELSE IF e.stage = "transcribe" /\ e.res = "empty" THEN "empty_transcript"
    ELSE IF e.stage = "analyze" /\ e.res = "unavailable" THEN "no_anthropic_key"
    ELSE IF e.stage = "analyze" /\ e.res = "fail" THEN "analysis_failed"
    ELSE IF e.stage = "analyze" /\ e.res = "ok" THEN ""
    ELSE "none"

\* C16: every persisted and every in-memory record carries one of the eight
\* tags, and a record that has left _process_meeting is persisted with the
\* tag of the condition that ended it in this run ("" when it was analysed)
C16_ErrorTaxonomy ==
    /\ \A ms \in {Stored, meetings} : \A i \in DOMAIN ms :
          ms[i].error \in ErrorTags
    /\ \A i \in DOMAIN unprocessed :
          Ended(i) =>
              LET id == unprocessed[i]
              IN  /\ runlog[id] # <<>>
                  /\ Has(Stored, id)
                  /\ Get(Stored, id).error = TagOf(runlog[id][Len(runlog[id])])

\* a record that an earlier run left with a tag after its download has been
\* analysed and its tag cleared, and the processing of the next record raised
C16_Witness ==
    /\ pc = "summary"
    /\ Len(unprocessed) = 2
    /\ runlog[unprocessed[1]] # <<>>
    /\ ~runlog[unprocessed[1]][1].external
    /\ AllStagesOk(unprocessed[1])
    /\ Get(Stored, unprocessed[1]).error = ""
    /\ Get(Stored, unprocessed[2]).error = "unexpected_error"

\* the entries of the housing vocabulary that occur in a text
Hits(text) ==
    {i \in DOMAIN HOUSING_KEYWORDS : Contains(text, Lower(HOUSING_KEYWORDS[i]))}

\* C17: an event with items and a combined text that is not blank scores
\* min(1.0, k/5), k the number of vocabulary entries occurring in the
\* lowercased text; an event with items and a blank text scores 0.1; an event
\* without items scores 0.3 if its lowercased body name contains one of the
\* four body terms, else 0.1
C17_RelevanceScoring ==
    pc = "returned" =>
        LET text == Lower(Join(TextParts(input.items)))
            k == Cardinality(Hits(text))
            body == Lower(input.body_name)
            named == \E i \in DOMAIN HousingBodyTerms :
                         Contains(body, HousingBodyTerms[i])
        IN  output[1] =
                IF input.items = <<>> THEN (IF named THEN 3 ELSE 1)
                ELSE IF \A i \in DOMAIN text : text[i] = Blank THEN 1
                ELSE IF k >= 5 THEN 10
                ELSE 2 * k

\* an event whose item texts hold more than five vocabulary entries has
\* scored 1.0
C17_Witness ==
    /\ pc = "returned"
    /\ input.items # <<>>
    /\ Cardinality(Hits(Lower(Join(TextParts(input.items))))) > 5
    /\ output = <<10>>

\* C18: every record of the store, in memory and in the file, has a
\* housing_relevance_score between 0.0 and 1.0 (0 and 10 tenths)
C18_ScoreInUnitInterval ==
    \A ms \in {meetings, Stored} : \A i \in DOMAIN ms :
        /\ ms[i].housing_relevance_score >= 0
        /\ ms[i].housing_relevance_score <= 10

\* the matches a pattern has anywhere in a title
MatchesIn(pattern, t) ==
    {MatchAt(pattern, t, s) : s \in 1..Len(t)} \ {NoMatch}

\* the dates a pattern family gives for the matches it has in a title
DatesOf(pattern, t) ==
    {ParseMatch(m).date : m \in {n \in MatchesIn(pattern, t) : ParseMatch(n).ok}}

\* C19: _extract_date returns a date of the first of the families month-name,
\* numeric, ISO that has a match in the title that parses, and returns the
\* empty string only when no family has such a match
C19_DatePrecedence ==
    pc = "returned" =>
        LET parsing == {i \in DOMAIN DATE_PATTERNS :
                           DatesOf(DATE_PATTERNS[i], input) # {}}
        IN  IF parsing = {} THEN output = <<<<>>>>
            ELSE \E i \in parsing :
                    /\ \A j \in parsing : i <= j
                    /\ output[1] \in DatesOf(DATE_PATTERNS[i], input)

\* the texts the three strategies hand to the decoder, in order; <<>> stands
\* for a strategy whose pattern has no match (the empty text never parses)
Candidates(text) ==
    <<FenceSearch(text, 1).group, text, BraceSearch(text).group>>

\* C20: _extract_json returns the value of the first of the three strategies
\* whose text parses, the empty dict when none parses, and never raises
C20_JsonExtraction ==
    pc = "returned" =>
        LET cands == Candidates(input)
            parsing == {i \in DOMAIN cands : loads(cands[i]).st = "ok"}
        IN  /\ ~output[1].raised
            /\ IF parsing = {} THEN output[1].value = <<"{", "}">>
               ELSE \E i \in parsing :
                       /\ \A j \in parsing : i <= j
                       /\ output[1].value = loads(cands[i]).val

\* the latest stage call was a language-model request that was answered, and
\* the response held no JSON object: nothing that parses, or a JSON value
\* that is not an object
NoObjectExtracted ==
    /\ lastCall.stage = "analyze"
    /\ lastCall.external
    /\ analyses[lastCall.id].kind \in {"marker", "nondict"}

\* C21: when the language-model request is answered and no JSON object can
\* be extracted from the response, the analysis file holds the marker object
\* and the record is persisted with processed=true, no error tag and its
\* analysis path
C21_UnparseableForwardProgress ==
    NoObjectExtracted =>
        /\ analyses[lastCall.id].kind = "marker"
        /\ Has(Stored, lastCall.id)
        /\ Get(Stored, lastCall.id).processed
        /\ Get(Stored, lastCall.id).error = ""
        /\ Get(Stored, lastCall.id).analysis_path = AnalysisPath(lastCall.id)

\* the text each of the three shapes of a response holds, in the order of
\* decreasing fidelity: utterances, paragraphs, flat transcript
Yields(data) ==
    LET present == data.shape = "object" /\ data.channels = "present"
    IN  << IF data.shape # "object" THEN <<>>
           ELSE LabelledLines(IF data.results_utterances # <<>>
                              THEN data.results_utterances
                              ELSE data.utterances),
           IF present THEN LabelledLines(Sentences(data.paragraphs)) ELSE <<>>,
           IF present THEN data.transcript ELSE <<>> >>

\* C22: format_transcript returns the text of the first of the three shapes
\* that yields a non-empty text, and the empty text when none does
C22_TranscriptNormalization ==
    pc = "returned" =>
        LET ys == Yields(input)
            full == {i \in DOMAIN ys : ys[i] # <<>>}
        IN  /\ ~output[1].raised
            /\ IF full = {} THEN output[1].text = <<>>
               ELSE \E i \in full : /\ \A j \in full : i <= j
                                     /\ output[1].text = ys[i]

\* the page requests _api_get_paginated has issued, in order
PageGets ==
    SelectSeq(wire, LAMBDA e : e.op = "get" /\ e.endpoint = input.endpoint)

PagesReturned == pc \in {"items", "returned"}

\* C23: the page requests carry the offsets 0, P, 2P, ... in this order, at
\* most N div P + 1 of them are issued, and a call all of whose requests were
\* answered with their page has stopped after the first page shorter than P
\* and returns the N items in collection order
C23_OffsetPagination ==
    /\ \A k \in DOMAIN PageGets :
          PageGets[k].skip = (k - 1) * input.page_size
    /\ Len(PageGets) <= (input.n \div input.page_size) + 1
    /\ (PagesReturned /\ \A k \in DOMAIN PageGets : PageGets[k].res = "ok")
          => /\ Len(PageGets) = (input.n \div input.page_size) + 1
             /\ output = <<Collection(input.n)>>

\* two full pages and the empty page after them
C23_Witness ==
    /\ PagesReturned
    /\ input.n = 2
    /\ input.page_size = 1
    /\ Len(PageGets) = 3
    /\ \A k \in DOMAIN PageGets : PageGets[k].res = "ok"
    /\ output = << <<1, 2>> >>

\* C29: every request of the adapter, answered or failed, is followed by
\* the rate-limit delay before the next request
C29_DelayAfterEveryRequest ==
    \A i \in 1..(Len(wire) - 1) :
        wire[i].op = "get" => wire[i + 1].op = "sleep"

\* C30: when a page request has failed, it is the last page request, and
\* the call has returned, as an ordinary list, the items of the pages before
\* it: what a complete call on a collection of that many items returns
C30_SilentTruncation ==
    \A k \in DOMAIN PageGets :
        PageGets[k].res = "fail" =>
            /\ k = Len(PageGets)
            /\ PagesReturned
            /\ output = <<Collection(PageGets[k].skip)>>

\* the second page request failed after a full first page
C30_Witness ==
    /\ input.n = 2
    /\ input.page_size = 1
    /\ Len(PageGets) = 2
    /\ PageGets[2].res = "fail"
    /\ output = << <<1>> >>

\* C24: in a run, a record's transcription comes only directly after its
\* acquisition returned a path, its analysis only directly after its
\* transcription returned a path with a non-empty formatted text, and a stage
\* that did not succeed is the record's last stage of the run
C24_StageOrdering ==
    \A id \in AllIds : \A i \in DOMAIN runlog[id] :
        LET e == runlog[id][i]
        IN  /\ e.stage = "download" => i = 1
            /\ e.stage = "transcribe" =>
                  /\ i = 2
                  /\ runlog[id][1] = Event("download", "ok", runlog[id][1].external)
                  /\ Has(meetings, id) /\ Get(meetings, id).audio_path # NoPath
            /\ e.stage = "analyze" =>
                  /\ i = 3
                  /\ runlog[id][2] = Event("transcribe", "ok", runlog[id][2].external)
                  /\ Has(meetings, id)
                  /\ Get(meetings, id).transcript_path # NoPath
                  /\ Get(meetings, id).housing_mentions > 0
            /\ e.res # "ok" => i = Len(runlog[id])

\* a record whose transcription failed after a successful acquisition has
\* ended, and the run is at its next record
C24_Witness ==
    /\ pc = "download"
    /\ idx = 2
    /\ Len(runlog[unprocessed[1]]) = 2
    /\ runlog[unprocessed[1]][2].stage = "transcribe"
    /\ runlog[unprocessed[1]][2].res = "fail"
    /\ runlog[unprocessed[2]] = <<>>

\* the stage events of a record in the current run that belong to a stage
StageEvents(id, stage) ==
    {i \in DOMAIN runlog[id] : runlog[id][i].stage = stage}

\* C27: a run holds every selected record once, goes through each stage of a
\* record at most once, whether the stage's external call succeeded or not,
\* touches no other record, and has gone through acquisition of every
\* selected record when it ends
C27_NoRetryWithinRun ==
    /\ \A i, j \in DOMAIN unprocessed :
          unprocessed[i] = unprocessed[j] => i = j
    /\ \A id \in AllIds :
          /\ \A stage \in {"download", "transcribe", "analyze"} :
                Cardinality(StageEvents(id, stage)) <= 1
          /\ runlog[id] # <<>> => id \in Batch
    /\ pc = "summary" => \A id \in Batch : Cardinality(StageEvents(id, "download")) = 1

\* a run of two records has ended; the download of the first failed and was
\* not attempted again
C27_Witness ==
    /\ pc = "summary"
    /\ Len(unprocessed) = 2
    /\ runlog[unprocessed[1]] = <<Event("download", "fail", TRUE)>>
    /\ runlog[unprocessed[2]] # <<>>

\* C28: a run pauses once between each record and the next: when record idx
\* is in a stage, idx - 1 pauses have been made; a pause begins only when a
\* record that is not the last has ended, and is followed by the acquisition
\* of the next record; a run over n records ends with max(0, n - 1) pauses
C28_DelayPlacement ==
    [][/\ pc' \in {"download", "transcribe", "analyze"} => sleeps' = idx' - 1
       /\ pc' = "sleep" =>
             /\ sleeps' = idx' - 1
             /\ idx' < Len(unprocessed')
             /\ runlog'[unprocessed'[idx']] # <<>>
       /\ pc' = "summary" =>
             sleeps' = (IF unprocessed' = <<>> THEN 0 ELSE Len(unprocessed') - 1)
       /\ sleeps' = sleeps + 1 =>
             /\ pc = "sleep" /\ pc' = "download"
             /\ idx' = idx + 1
             /\ runlog'[unprocessed'[idx']] = <<>>]_vars

\* a run of two records has ended after one pause; the first record ended
\* by an exception caught in run, the second went through all its stages
C28_Witness ==
    /\ pc = "summary"
    /\ Len(unprocessed) = 2
    /\ sleeps = 1
    /\ Raised(unprocessed[1])
    /\ AllStagesOk(unprocessed[2])

\* the entries of the store file that a run leaves alone: those of records
\* already processed and those of cities the run was not asked for
Passive(f, cs) ==
    {i \in DOMAIN f : f[i].value.processed \/ f[i].value.jurisdiction \notin cs}

\* C26: the records a run selects are unprocessed and of its cities when
\* the processing phase starts; every stage is invoked on the selected
\* record the run is at; the selection does not change during the phase;
\* the file entry of a record that is processed or of another city is the
\* same after every step of the run, and no step logs a stage event for it;
\* a record outside the selection has no stage event at all
C26_ProcessingFrame ==
    [][/\ (pc = "idle" /\ pc' # "idle") =>
             /\ \A i \in DOMAIN unprocessed' :
                    /\ Has(meetings', unprocessed'[i])
                    /\ ~Get(meetings', unprocessed'[i]).processed
                    /\ Get(meetings', unprocessed'[i]).jurisdiction \in cities'
             /\ \A i \in DOMAIN file : file'[i] = file[i]
       /\ pc \in {"download", "transcribe", "analyze", "sleep"} =>
             /\ unprocessed' = unprocessed
             /\ cities' = cities
             /\ lastCall' # lastCall => lastCall'.id = unprocessed[idx]
             /\ \A id \in AllIds \ Range(unprocessed) : runlog'[id] = <<>>
             /\ \A i \in Passive(file, cities) :
                    /\ file'[i] = file[i]
                    /\ runlog'[file[i].key] = runlog[file[i].key]]_vars

\* a run asked for Denver alone has ended: it took the Denver record through
\* a stage, and the unprocessed Aurora record of the store has no event
C26_Witness ==
    /\ pc = "summary"
    /\ cities = {"Denver"}
    /\ \E i \in DOMAIN file :
           /\ file[i].value.jurisdiction = "Aurora"
           /\ ~file[i].value.processed
           /\ runlog[file[i].key] = <<>>
    /\ \E i \in DOMAIN file :
           /\ file[i].value.jurisdiction = "Denver"
           /\ runlog[file[i].key] # <<>>

\* ------------------------------------------------- interrupted runs
\* the process is gone: the pipeline object and the locals of run() with
\* it; the store file and the artifacts stay as they are
Killed ==
    /\ pc' = "idle"
    /\ meetings' = <<>>
    /\ keys' = [deepgram |-> TRUE, anthropic |-> TRUE]
    /\ cities' = {}
    /\ unprocessed' = <<>>
    /\ idx' = 0
    /\ runlog' = [id \in AllIds |-> <<>>]
    /\ lastCall' = NoCall
    /\ sleeps' = 0
    /\ UNCHANGED <<file, fileState, helper, adapter>>

\* the run is killed between two statements of the loop: before a stage of
\* the record it is at, or in the pause after a record
Interrupt ==
    /\ pc \in {"download", "transcribe", "analyze", "sleep"}
    /\ Killed
    /\ UNCHANGED disk

\* the run is killed in step 2, after transcribe wrote the transcript file
\* and before any upsert of the record
InterruptTranscribe(outcome) ==
    /\ pc = "transcribe"
    /\ keys.deepgram
    /\ LET m == Current
           r == transcribe(m, keys.deepgram, transcripts[m.id], outcome)
       IN  /\ r.transcript # transcripts[m.id]
           /\ transcripts' = [transcripts EXCEPT ![m.id] = r.transcript]
    /\ Killed
    /\ UNCHANGED <<audio, analyses, summaries>>

\* the run is killed in step 3, after analyze wrote the analysis and the
\* summary file and before the upsert of the record
InterruptAnalyze(outcome) ==
    /\ pc = "analyze"
    /\ keys.anthropic
    /\ LET m == Current
           r == analyze(m, keys.anthropic, analyses[m.id], summaries[m.id],
                        outcome)
       IN  /\ r.analysis # analyses[m.id]
           /\ analyses' = [analyses EXCEPT ![m.id] = r.analysis]
           /\ summaries' = [summaries EXCEPT ![m.id] = r.summary]
    /\ Killed
    /\ UNCHANGED <<audio, transcripts>>

\* CrashSpec: runs over the two channels, where the process may be killed
\* at any point of a run.  yt-dlp fails or writes the requested or another
\* extension; a transcription is text or blank; an analysis is an object
CrashDownload == {"failed", "saved", "altext"}

CrashTranscribe == {"text", "empty"}

CrashAnalyze == {[kind |-> "dict", score |-> 5]}

\* the listings of the two channels, every video under its first title
CrashFound ==
    {found \in YoutubeFound(COLORADO_CITIES) :
        \A i \in DOMAIN found : found[i].title = "t1"}

NextCrash ==
    \/ \E skip \in BOOLEAN, dk \in BOOLEAN, ak \in BOOLEAN :
          \E found \in IF skip THEN {<<>>} ELSE CrashFound :
             Run({}, skip, dk, ak, found)
    \/ \E o \in CrashDownload : Download(o, "ok")
    \/ \E o \in CrashTranscribe : Transcribe(o, "ok")
    \/ \E o \in CrashAnalyze : Analyze(o, "ok")
    \/ RateLimit
    \/ Summary
    \/ Interrupt
    \/ \E o \in CrashTranscribe : InterruptTranscribe(o)
    \/ \E o \in CrashAnalyze : InterruptAnalyze(o)

CrashSpec == Init /\ [][NextCrash]_vars

\* the record of the store file for the record the run is at
Persisted == Get(Stored, unprocessed[idx])

LastEvent(id) == runlog[id][Len(runlog[id])]

\* C25: in a run that goes on, a stage reached for a record whose artifact
\* is on disk while the persisted record does not carry the artifact's path
\* makes no external call, and: acquisition records the audio path and goes
\* on to transcription; transcription records the transcript path and goes
\* on to analysis; analysis persists the record with the analysis path
C25_CrashRecovery ==
    [][pc' # "idle" =>
         /\ (/\ pc = "download"
             /\ audio[unprocessed[idx]] # {}
             /\ Persisted.audio_path = NoPath) =>
                /\ ~LastEvent(unprocessed[idx])'.external
                /\ pc' = "transcribe"
                /\ \E e \in audio[unprocessed[idx]] :
                       Current'.audio_path = AudioPath(unprocessed[idx], e)
         /\ (/\ pc = "transcribe"
             /\ transcripts[unprocessed[idx]] # "none"
             /\ Persisted.transcript_path = NoPath) =>
                /\ ~LastEvent(unprocessed[idx])'.external
                /\ pc' = "analyze"
                /\ Current'.transcript_path = TranscriptPath(unprocessed[idx])
         /\ (/\ pc = "analyze"
             /\ analyses[unprocessed[idx]].kind # "none"
             /\ Persisted.analysis_path = NoPath) =>
                /\ ~LastEvent(unprocessed[idx])'.external
                /\ Persisted'.analysis_path = AnalysisPath(unprocessed[idx])]_vars

\* the ids of the records whose processing has ended in the current run
EndedIds ==
    {unprocessed[i] : i \in {j \in DOMAIN unprocessed :
                                 j < idx \/ (j = idx /\ pc \in {"sleep", "summary"})}}

\* C37: every record a run is through starts with acquisition, whatever
\* keys are set.  Without the speech-to-text key no record has a
\* transcription or analysis call, and a record whose acquisition returned a
\* path is persisted as no_deepgram_key.  With that key and without the
\* analysis key, a record whose transcription gave text has no analysis call
\* and is persisted with its audio path, transcript path and mention count,
\* tagged no_anthropic_key and not processed
C37_AvailabilityAtStage ==
    \A id \in EndedIds :
        LET ev == runlog[id]
            rec == Get(Stored, id)
        IN  /\ ev # <<>>
            /\ ev[1].stage = "download"
            /\ ~keys.deepgram =>
                  /\ \A i \in DOMAIN ev :
                         ev[i].stage \in {"transcribe", "analyze"} =>
                            ev[i] = Event("transcribe", "unavailable", FALSE)
                  /\ ev[1].res = "ok" =>
                        /\ Len(ev) = 2
                        /\ rec.error = "no_deepgram_key"
                        /\ ~rec.processed
            /\ (keys.deepgram /\ ~keys.anthropic /\ Len(ev) = 3) =>
                  /\ ev[2].stage = "transcribe" /\ ev[2].res = "ok"
                  /\ ev[3] = Event("analyze", "unavailable", FALSE)
                  /\ rec.audio_path = AudioPath(id, AudioFormat)
                  /\ rec.transcript_path = TranscriptPath(id)
                  /\ rec.housing_mentions = count_housing_mentions("speech")
                  /\ rec.error = "no_anthropic_key"
                  /\ ~rec.processed

\* a run without the analysis key has ended after two records: the first
\* went through acquisition and transcription and was stopped at analysis,
\* the second failed at acquisition
C37_Witness ==
    /\ pc = "summary"
    /\ keys.deepgram /\ ~keys.anthropic
    /\ Len(unprocessed) = 2
    /\ Len(runlog[unprocessed[1]]) = 3
    /\ runlog[unprocessed[1]][1].external
    /\ runlog[unprocessed[1]][2].external
    /\ Get(Stored, unprocessed[1]).error = "no_anthropic_key"
    /\ Get(Stored, unprocessed[2]).error = "download_failed"

\* --------------------------------------------------- portal adapter
\* GranicusDiscovery for one site.  In the texts of this section "t", "r",
\* "d", "s" stand for test, training, demo, sample, and a text such as
\* <<"p", "t">> for a word that contains one of them (protest).
NoId == 0

Clip(clip_id, title, body_name) ==
    [clip_id |-> clip_id, title |-> title, body_name |-> body_name]

\* the objects of the JSON endpoint: id, title, body name; NoId when the
\* object has neither "id" nor "clip_id"
ApiItems ==
    {Clip(7, <<"C">>, <<>>), Clip(7, <<"T">>, <<"c">>), Clip(8, <<"C">>, <<"p">>),
     Clip(8, <<"p", "t">>, <<>>), Clip(8, <<"C">>, <<"c">>),
     Clip(NoId, <<"C">>, <<>>), Clip(7, <<"d", "l">>, <<"p">>)}

\* what the JSON endpoint answers with status 200: a list of objects, an
\* object holding the list under "clips", an object without it, a body that
\* is not JSON, or JSON of another shape (null, a number, a list of strings)
ApiBodies ==
    [shape : {"list", "clips", "object"}, items : SeqUpTo(ApiItems, MaxListing)]
    \cup [shape : {"notjson", "other"}, items : {<<>>}]

\* the listing page as the matches of the two patterns in page order: a
\* "link" is a /player/clip/<id> link with its title, a "bare" a clip_<id>
\* that only the id pattern matches
HtmlTokens ==
    {[kind |-> "link", clip_id |-> 7, title |-> <<"C">>],
     [kind |-> "link", clip_id |-> 7, title |-> <<"T">>],
     [kind |-> "link", clip_id |-> 8, title |-> <<"p", "t">>],
     [kind |-> "bare", clip_id |-> 7, title |-> <<>>],
     [kind |-> "bare", clip_id |-> 8, title |-> <<>>]}

HtmlPages == SeqUpTo(HtmlTokens, MaxListing)

Take(q, n) == SubSeq(q, 1, Min(n, Len(q)))

_parse_api_responseUnsliced(body, max_clips) ==
    LET data == IF body.shape = "object" THEN <<>> ELSE body.items
    IN  SelectSeq(data, LAMBDA item : item.clip_id # NoId)

\* the clips of data[:max_clips] that have an id
_parse_api_response(body, max_clips) ==
    LET data == IF body.shape = "object" THEN <<>> ELSE body.items
    IN  SelectSeq(Take(data, max_clips), LAMBDA item : item.clip_id # NoId)

\* the loop over clip_pattern.finditer
RichClips(html, max_clips) ==
    LET links == SelectSeq(html, LAMBDA k : k.kind = "link")
    IN  [i \in 1..Min(max_clips, Len(links)) |->
            Clip(links[i].clip_id, links[i].title, <<>>)]

RECURSIVE Unseen(_, _)
Unseen(ids, seen) ==
    IF ids = <<>> THEN <<>>
    ELSE IF Head(ids) \in seen THEN Unseen(Tail(ids), seen)
    ELSE <<Head(ids)>> \o Unseen(Tail(ids), seen \cup {Head(ids)})

\* the loop over id_pattern.finditer, which matches links too; the title is
\* "Meeting (Clip <id>)"
BareClips(html, max_clips) ==
    LET ids == Unseen([i \in DOMAIN html |-> html[i].clip_id], {})
    IN  [i \in 1..Min(max_clips, Len(ids)) |-> Clip(ids[i], <<"m">>, <<>>)]

_parse_html_listing(html, max_clips) ==
    IF RichClips(html, max_clips) # <<>> THEN RichClips(html, max_clips)
    ELSE BareClips(html, max_clips)

\* test, training, demo, sample
ignore_terms == << <<"t">>, <<"r">>, <<"d">>, <<"s">> >>

_is_relevant_meeting(clip) ==
    ~\E i \in DOMAIN ignore_terms : Contains(Lower(clip.title), ignore_terms[i])

_matches_bodyKnown(clip, bodies) ==
    \E i \in DOMAIN bodies : Contains(Lower(clip.body_name), Lower(bodies[i]))

_matches_body(clip, bodies) ==
    \/ clip.body_name = <<>>
    \/ \E i \in DOMAIN bodies : Contains(Lower(clip.body_name), Lower(bodies[i]))

GranicusMeeting(clip) ==
    Meeting([prefix |-> "granicus", native |-> clip.clip_id], "Denver",
            clip.title, "granicus", 0)

\* discover_meetings after _fetch_clips
Relevant(clips, body_filter) ==
    LET named == IF body_filter = <<>> THEN clips
                 ELSE SelectSeq(clips, LAMBDA c : _matches_body(c, body_filter))
        kept == SelectSeq(named, _is_relevant_meeting)
    IN  [i \in DOMAIN kept |-> GranicusMeeting(kept[i])]

Request(path, outcome) ==
    wire' = Append(wire, [op |-> "get", endpoint |-> path, skip |-> 0,
                          res |-> outcome])

PortalOutcomes == {"ok", "status", "fail"}

\* resp.json() on a body that is not JSON raises requests' JSONDecodeError,
\* a RequestException since requests 2.27 and a plain ValueError before
JsonErrors == {"RequestException", "ValueError"}

\* _fetch_clips: the JSON endpoint
ClipsApiRequest(outcome, decode) ==
    /\ pc = "call"
    /\ Request("/api/clips", outcome)
    /\ IF outcome # "ok"
       THEN pc' = "html" /\ UNCHANGED all_results
       ELSE IF input.json.shape = "notjson"
       THEN /\ pc' = IF decode = "RequestException" THEN "html" ELSE "raised"
            /\ UNCHANGED all_results
       ELSE IF input.json.shape = "other"
       THEN pc' = "raised" /\ UNCHANGED all_results
       ELSE /\ all_results' = _parse_api_response(input.json, input.max_clips)
            /\ pc' = "clips"
    /\ UNCHANGED <<file, fileState, meetings, disk, keys, cities, unprocessed,
                   idx, runlog, lastCall, helper, sleeps, page_skip, evt>>

\* _fetch_clips: the HTML listing page
ListingRequest(outcome) ==
    /\ pc = "html"
    /\ Request("/ViewPublisher.php", outcome)
    /\ all_results' = IF outcome = "ok"
                      THEN _parse_html_listing(input.html, input.max_clips)
                      ELSE <<>>
    /\ pc' = "clips"
    /\ UNCHANGED <<file, fileState, meetings, disk, keys, cities, unprocessed,
                   idx, runlog, lastCall, helper, sleeps, page_skip, evt>>

\* discover_meetings: the body filter, the relevance filter, the records
EmitMeetings ==
    /\ pc = "clips"
    /\ output' = <<Relevant(all_results, input.body_filter)>>
    /\ pc' = "returned"
    /\ UNCHANGED <<file, fileState, meetings, disk, keys, cities, unprocessed,
                   idx, runlog, lastCall, input, adapter, sleeps>>

\* one of the endpoint and the page lists nothing
PortalInputs ==
    {i \in [max_clips : 0..MaxClips, body_filter : {<<>>, << <<"C">> >>},
            json : ApiBodies, html : HtmlPages] :
        i.json.items = <<>> \/ i.html = <<>>}

NextPortal ==
    \/ \E o \in PortalOutcomes, d \in JsonErrors : ClipsApiRequest(o, d)
    \/ \E o \in PortalOutcomes : ListingRequest(o)
    \/ EmitMeetings

PortalSpec == HelperInit(PortalInputs) /\ [][NextPortal]_vars

\* -------------------------------------------------- channel adapter
\* MeetingDiscovery.discover_from_youtube.  Texts are as in DateSpec; the
\* word "X" stands for a phrase of MEETING_TITLE_KEYWORDS.
MEETING_TITLE_KEYWORDS == << <<"x">> >>

_is_meeting_title(title) ==
    \E i \in DOMAIN MEETING_TITLE_KEYWORDS :
        Contains(Lower(title), MEETING_TITLE_KEYWORDS[i])

\* JSON null as the value of a key
None == <<"None">>

\* an entry has no "upload_date" (<<>>), null, eight digits or four digits
Line(kind, id, title, upload_date) ==
    [kind |-> kind, id |-> id, title |-> title, upload_date |-> upload_date]

\* the lines yt-dlp prints: text that is not JSON, JSON that is no object,
\* and entries: with a date in the title, without one, with a month-name
\* match that is no month, with a numeric date out of range, without a
\* keyword, without an id
Lines ==
    {Line("garbage", NoId, <<>>, <<>>), Line("scalar", NoId, <<>>, <<>>),
     Line("entry", 1, <<"X", " ", "J", "a", "n", " ", "3", ",", " ",
                        "2", "0", "2", "5">>,
          <<"2", "0", "2", "5", "0", "1", "0", "4">>),
     Line("entry", 1, <<"X">>, <<"2", "0", "2", "5", "0", "1", "0", "4">>),
     Line("entry", 2, <<"X">>, <<>>),
     Line("entry", 2, <<"X">>, None),
     Line("entry", 2, <<"X", " ", "3", " ", "2", "0", "2", "5">>,
          <<"2", "0", "2", "5">>),
     Line("entry", 2, <<"X", " ", "1", "3", "/", "4", "5", "/",
                        "2", "0", "2", "5">>, <<>>),
     Line("entry", 1, <<"J", "a", "n", " ", "3", ",", " ", "2", "0", "2", "5">>,
          <<"2", "0", "2", "5", "0", "1", "0", "4">>),
     Line("entry", NoId, <<"X">>, <<"2", "0", "2", "5", "0", "1", "0", "4">>)}

\* date_str after lines 206-208
DateOf(entry) ==
    LET extracted == _extract_date(entry.title)
        date_str == IF extracted # <<>> THEN extracted ELSE entry.upload_date
    IN  IF date_str \notin {<<>>, None} /\ Len(date_str) = 8 /\ isdigit(date_str)
        THEN SubSeq(date_str, 1, 4) \o <<"-">> \o SubSeq(date_str, 5, 6)
             \o <<"-">> \o SubSeq(date_str, 7, 8)
        ELSE date_str

ChannelMeeting(entry) ==
    [id |-> entry.id, title |-> entry.title, date |-> DateOf(entry),
     source |-> "youtube"]

RECURSIVE RecordsUntilGarbage(_)
RecordsUntilGarbage(lines) ==
    IF lines = <<>> \/ Head(lines).kind = "garbage" THEN <<>>
    ELSE (IF Head(lines).id # NoId /\ _is_meeting_title(Head(lines).title)
          THEN <<ChannelMeeting(Head(lines))>> ELSE <<>>)
         \o RecordsUntilGarbage(Tail(lines))

\* the loop over the lines of the output
RECURSIVE Records(_)
Records(lines) ==
    IF lines = <<>> THEN <<>>
    ELSE (IF /\ Head(lines).kind = "entry"
             /\ Head(lines).id # NoId
             /\ _is_meeting_title(Head(lines).title)
          THEN <<ChannelMeeting(Head(lines))>> ELSE <<>>)
         \o Records(Tail(lines))

\* yt-dlp is not installed, runs into the timeout, exits non-zero, exits 0
ToolOutcomes == {"absent", "timeout", "nonzero", "ok"}

\* discover_from_youtube; entry.get on JSON that is no object raises
ListChannel(tool) ==
    /\ pc = "call"
    /\ Request("yt-dlp", tool)
    /\ IF tool # "ok"
       THEN pc' = "returned" /\ output' = << <<>> >>
       ELSE IF \E i \in DOMAIN input : input[i].kind = "scalar"
       THEN pc' = "raised" /\ UNCHANGED output
       ELSE pc' = "returned" /\ output' = <<Records(input)>>
    /\ UNCHANGED <<file, fileState, meetings, disk, keys, cities, unprocessed,
                   idx, runlog, lastCall, input, sleeps, page_skip, all_results,
                   evt>>

NextChannel == \E tool \in ToolOutcomes : ListChannel(tool)

ChannelSpec == HelperInit(SeqUpTo(Lines, MaxListing)) /\ [][NextChannel]_vars

\* ------------------------------------------ legislative-API batch
\* LegistarDiscovery.discover_meetings on the raw events that
\* _api_get_paginated returned, without a body filter.
RawEvent(kind, event_id, body_name) ==
    [kind |-> kind, event_id |-> event_id, body_name |-> body_name]

\* raw events: one that is no object, one whose EventDate is null, and
\* well-formed ones of a zoning body, another body and a land use body
RawEvents ==
    {RawEvent("nodict", 0, <<>>), RawEvent("nodate", 1, <<"Z">>),
     RawEvent("event", 1, <<"Z">>), RawEvent("event", 2, <<"c">>),
     RawEvent("event", 3, <<"l", " ", "u">>)}

\* _parse_event; it raises on the first two kinds
LegistarEvent(raw) ==
    [event_id |-> raw.event_id, body_name |-> raw.body_name, items |-> <<>>]

RECURSIVE _fetch_eventsStopping(_)
_fetch_eventsStopping(data) ==
    IF data = <<>> \/ Head(data).kind # "event" THEN <<>>
    ELSE <<LegistarEvent(Head(data))>> \o _fetch_eventsStopping(Tail(data))

\* the loop of _fetch_events
RECURSIVE _fetch_events(_)
_fetch_events(data) ==
    IF data = <<>> THEN <<>>
    ELSE (IF Head(data).kind = "event" THEN <<LegistarEvent(Head(data))>>
          ELSE <<>>)
         \o _fetch_events(Tail(data))

\* the item request is answered with a list, fails with a RequestException,
\* is answered with a JSON object, or _fetch_event_items raises (an entry of
\* the list is no object, the body is not JSON)
ItemOutcomes == {"ok", "fail", "object", "raise"}

\* the lists an item request is answered with
ItemLists ==
    {<<>>,
     <<[title |-> <<"A", "b">>, matter_name |-> <<>>, action_text |-> <<>>,
        matter_type |-> <<>>]>>}

\* what _fetch_event_items returns when it returns
_fetch_event_items(outcome, items) == IF outcome = "ok" THEN items ELSE <<>>

_event_to_meeting(event, relevance) ==
    Meeting([prefix |-> LegistarClient("Denver"), native |-> event.event_id],
            "Denver", event.body_name, "legistar", relevance)

\* discover_meetings up to the loop over the events
FetchEvents ==
    /\ pc = "call"
    /\ all_results' = _fetch_events(input)
    /\ evt' = 1
    /\ output' = << <<>> >>
    /\ pc' = IF _fetch_events(input) = <<>> THEN "returned" ELSE "items"
    /\ UNCHANGED <<file, fileState, meetings, disk, keys, cities, unprocessed,
                   idx, runlog, lastCall, input, sleeps, page_skip, wire>>

\* one iteration of the loop of discover_meetings
FetchItems(outcome, items) ==
    /\ pc = "items"
    /\ LET event == [all_results[evt] EXCEPT
                        !.items = IF outcome = "raise" THEN @
                                  ELSE _fetch_event_items(outcome, items)]
       IN  /\ all_results' = [all_results EXCEPT ![evt] = event]
           /\ output' = <<Append(output[1],
                                 _event_to_meeting(event,
                                     _score_housing_relevance(event)))>>
    /\ Request("/eventitems", outcome)
    /\ evt' = evt + 1
    /\ pc' = IF evt < Len(all_results) THEN "items" ELSE "returned"
    /\ UNCHANGED <<file, fileState, meetings, disk, keys, cities, unprocessed,
                   idx, runlog, lastCall, input, sleeps, page_skip>>

NextBatch ==
    \/ FetchEvents
    \/ \E o \in ItemOutcomes, items \in ItemLists : FetchItems(o, items)

BatchSpec == HelperInit(SeqUpTo(RawEvents, MaxEvents)) /\ [][NextBatch]_vars

\* ------------------------------------------- two instances on one file
\* the records a portal pass finds
OtherRecords == {Meeting(id, "Denver", "t1", "granicus", 0) : id \in GranicusIds}

\* the store loop of discover_all_granicus in another process: its own
\* MeetingDatabase() on the file, and an upsert of a record the file does
\* not hold.  runlog keeps the ids stored this way, at most MaxOther times each
OtherUpsert(m) ==
    /\ pc \in {"idle", "store"}
    /\ fileState \in {"absent", "document"}
    /\ ~Has(Load(file), m.id)
    /\ Len(runlog[m.id]) < MaxOther
    /\ file' = DbUpsert([meetings |-> Load(file), file |-> file], m).file
    /\ fileState' = "document"
    /\ lastCall' = [NoCall EXCEPT !.stage = "other", !.id = m.id]
    /\ Log(m.id, "store", "ok", FALSE)
    /\ UNCHANGED <<meetings, disk, keys, pc, cities, unprocessed, idx, helper,
                   adapter, sleeps>>

\* SnapshotSpec: an instance that is opened, upserts and is closed, while
\* another process stores new records in the same file
NextSnapshot ==
    \/ OpenStore
    \/ \E m \in StoreRecords : StoreUpsert(m)
    \/ CloseStore
    \/ \E m \in OtherRecords : OtherUpsert(m)

SnapshotSpec == Init /\ [][NextSnapshot]_vars

\* C36: an open instance does not read the file again: a write by another
\* process leaves its in-memory records as they are.  An upsert of the open
\* instance writes its in-memory records, with the upserted one, as the
\* whole file: an id that another process stored in the file after the
\* instance was opened is no longer in the file
C36_StaleSnapshotWrite ==
    [][/\ lastCall'.stage = "other" => meetings' = meetings
       /\ (pc = "store" /\ lastCall'.stage = "upsert") =>
             /\ file' = Save(meetings')
             /\ Ids(meetings') = Ids(meetings) \cup {lastCall'.id}
             /\ \A id \in Ids(Load(file)) \ Ids(meetings') :
                    id \notin Ids(Load(file'))]_vars

\* the open instance has just upserted, and a record that another process
\* had stored is in neither the file nor the instance
C36_Witness ==
    /\ pc = "store"
    /\ lastCall.stage = "upsert"
    /\ \E id \in GranicusIds :
           /\ runlog[id] # <<>>
           /\ id \notin Ids(Load(file))
           /\ id \notin Ids(meetings)

Asked(path) == \E i \in DOMAIN wire : wire[i].endpoint = path

ListingAnswer == wire[Len(wire)].res

\* C31: the listing page is requested exactly when the request to the JSON
\* endpoint failed or its status was not 200; after a 200 the clips are the
\* parsed list of the endpoint and the page is not requested; the clips of
\* a page are those of the id+title pattern, and those of the bare-id
\* pattern only when the id+title pattern gives none
C31_FallbackOrder ==
    pc # "call" =>
        /\ (pc = "html" \/ Asked("/ViewPublisher.php")) <=>
               wire[1].res \in {"status", "fail"}
        /\ wire[1].res = "ok" =>
              /\ pc \in {"clips", "returned"}
              /\ pc = "clips" =>
                    all_results = _parse_api_response(input.json, input.max_clips)
        /\ (pc = "clips" /\ Asked("/ViewPublisher.php") /\ ListingAnswer = "ok") =>
              /\ RichClips(input.html, input.max_clips) # <<>> =>
                    all_results = RichClips(input.html, input.max_clips)
              /\ RichClips(input.html, input.max_clips) = <<>> =>
                    all_results = BareClips(input.html, input.max_clips)

Denylisted(title) ==
    \E term \in {<<"t">>, <<"r">>, <<"d">>, <<"s">>} : Contains(Lower(title), term)

Allowed(body_name) ==
    \/ body_name = <<>>
    \/ input.body_filter = <<>>
    \/ \E i \in DOMAIN input.body_filter :
          Contains(Lower(body_name), Lower(input.body_filter[i]))

\* C32: the records discover_meetings returns are, in the order of the
\* fetched clips, one record with id granicus_<clip id>, source granicus
\* and the clip's title for each clip whose body name is unknown or
\* contains an entry of the supplied allow-list, letter case ignored, and
\* whose title contains no denylisted term, letter case ignored
C32_PortalFiltering ==
    pc = "returned" =>
        LET kept == SelectSeq(all_results,
                        LAMBDA c : Allowed(c.body_name) /\ ~Denylisted(c.title))
            out == output[1]
        IN  /\ Len(out) = Len(kept)
            /\ \A i \in DOMAIN kept :
                   /\ out[i].id = [prefix |-> "granicus", native |-> kept[i].clip_id]
                   /\ out[i].source = "granicus"
                   /\ out[i].title = kept[i].title

\* with an allow-list supplied, of two fetched clips the one of unknown
\* body was emitted and the one with a denylisted title was not
C32_Witness ==
    /\ pc = "returned"
    /\ input.body_filter # <<>>
    /\ Len(all_results) = 2
    /\ all_results[1].body_name = <<>>
    /\ Denylisted(all_results[2].title)
    /\ Len(output[1]) = 1
    /\ output[1][1].title = all_results[1].title

DistinctIds(clips) ==
    \A i, j \in DOMAIN clips : clips[i].clip_id = clips[j].clip_id => i = j

\* C38: the fetched clip list has at most max_clips entries and no two
\* entries with the same clip id
C38_BoundedDistinctClips ==
    pc = "clips" =>
        /\ Len(all_results) <= input.max_clips
        /\ DistinctIds(all_results)

\* C38 as the code has it: the fetched clip list has at most max_clips
\* entries whichever strategy produced it; its ids are distinct when the
\* bare-id pattern produced it
C38_BoundedClips ==
    pc = "clips" =>
        /\ Len(all_results) <= input.max_clips
        /\ (/\ Asked("/ViewPublisher.php")
            /\ ListingAnswer = "ok"
            /\ RichClips(input.html, input.max_clips) = <<>>) =>
               DistinctIds(all_results)

\* a page that names one clip twice, by the bare-id pattern only, gave one
\* clip although two were allowed
C38_Witness ==
    /\ pc = "clips"
    /\ Asked("/ViewPublisher.php")
    /\ ListingAnswer = "ok"
    /\ input.max_clips = 2
    /\ Len(input.html) = 2
    /\ input.html[1] = input.html[2]
    /\ input.html[1].kind = "bare"
    /\ Len(all_results) = 1

IsoForm(d) ==
    /\ Len(d) = 10
    /\ \A i \in {1, 2, 3, 4, 6, 7, 9, 10} : d[i] \in Digits
    /\ d[5] = "-" /\ d[8] = "-"

\* the entries that become records
Listed == SelectSeq(input, LAMBDA l : l.kind = "entry" /\ l.id # NoId
                                      /\ _is_meeting_title(l.title))

\* C33: every entry with an id and a meeting title gives a record; its date
\* is the date extracted from the title when there is one, else the upload
\* date, reformatted, when the entry has one, else empty; every date is
\* empty or of the form YYYY-MM-DD
C33_ChannelDates ==
    (pc = "returned" /\ wire[1].res = "ok") =>
        /\ Len(output[1]) = Len(Listed)
        /\ \A i \in DOMAIN Listed :
               LET date == output[1][i].date
               IN  /\ date = <<>> \/ IsoForm(date)
                   /\ _extract_date(Listed[i].title) # <<>> =>
                         date = _extract_date(Listed[i].title)
                   /\ (/\ _extract_date(Listed[i].title) = <<>>
                       /\ Listed[i].upload_date = <<>>) => date = <<>>

\* C34: when yt-dlp is absent, times out or exits non-zero the adapter
\* returns the empty list and raises nothing; a line of output that is not
\* JSON is skipped and the lines after it still become records
C34_ChannelFailures ==
    /\ (pc # "call" /\ wire[1].res # "ok") =>
          pc = "returned" /\ output = << <<>> >>
    /\ (pc = "returned" /\ wire[1].res = "ok") =>
          /\ Len(output[1]) = Len(Listed)
          /\ \A i \in DOMAIN Listed :
                 /\ output[1][i].id = Listed[i].id
                 /\ output[1][i].title = Listed[i].title

C34_Witness ==
    /\ pc = "returned" /\ wire[1].res = "ok"
    /\ Len(input) = 2 /\ input[1].kind = "garbage"
    /\ Len(output[1]) = 1 /\ output[1][1].id = input[2].id

\* the raw events that parse
WellFormed == SelectSeq(input, LAMBDA raw : raw.kind = "event")

BodyFallback(body_name) ==
    IF \/ Contains(Lower(body_name), <<"z">>)
       \/ Contains(Lower(body_name), <<"l", " ", "u">>)
       \/ Contains(Lower(body_name), <<"h">>)
       \/ Contains(Lower(body_name), <<"p">>)
    THEN 3 ELSE 1

====
